---- MODULE Spec2Model ----
(***************************************************************************)
(* x-ts-player: the pacing scheduler (SpeedControl), the WebcodecPlayer    *)
(* that owns one, the keyframe detector, the description extraction, the   *)
(* ingestion loop of processVideoFile and processVideoFile as a whole.     *)
(*                                                                         *)
(* Times are milliseconds of the page clock (performance.now() and the     *)
(* timestamp requestAnimationFrame hands to its callback).                 *)
(***************************************************************************)
EXTENDS Integers, Sequences, FiniteSets, TLC

VARIABLES
    \* ---- SpeedControl fields (speed-control.ts:2-8)
    encodeVideoChunkQueue,  \* sequence of chunks, front first
    preTime,                \* the baseline timestamp
    firstFrameTime,         \* 0 until the first chunk is enqueued
    reqId,                  \* 0, or the handle of the last requestAnimationFrame
    paused,
    onFrame,                \* "fn" (the consumer) or "null" (after destroy)
    \* ---- the host the scheduler runs in
    rafPending,             \* the browser holds a registered frame callback
    now,                    \* the page clock
    \* ---- observation of the scheduler
    delivered,              \* chunks handed to the consumer, in call order
    enqueued,               \* number of addEncodeVideoChunk calls so far
    errorLogged,            \* the catch block of the last reqFrame ran
    lastBranch,             \* the branch the last reqFrame took
    lastEmitted,            \* consumer invocations made by the last reqFrame
    onTimeTicks,            \* on-time ticks since the first enqueue, -1 after a catch-up
    destroyCalls,           \* SpeedControl.destroy() calls so far: 0, 1, 2 = two or more
    playerDestroyCalls,     \* WebcodecPlayer.destroy() calls so far, likewise
    lastOp,                 \* the operation that produced this state
    \* ---- WebcodecPlayer fields (hw-decoder.ts:17-22)
    speedControl,           \* "sc" (reference to the scheduler) or "null"
    decoder,                \* "null", or the VideoDecoder's state: "open" / "closed"
    decoderProfile,         \* "set" or "null"
    videoRender,            \* "render" or "null"
    playerError,            \* the last WebcodecPlayer.destroy() threw
    \* ---- processVideoFile ingestion loop (useVideoDemuxDecoder.ts:289-458)
    pc,                     \* where processVideoFile is: "idle", "reading" (in the
                            \* loop), "read" (loop left), "done"; more for a whole run
    codecType,              \* "h264" or "h265"
    videoStreamIndex,       \* index of the stream chosen as the video stream
    hasOnProgress,          \* options.onProgress was supplied
    readResult,             \* what the last readAVPacket returned: "ok", "END", "error"
    contextDestroys,        \* calls of iformatContext.destroy()
    packetDestroys,         \* calls of destroyAVPacket(avpacket)
    packetCount,
    videoPacketCount,
    keyframeCount,
    progressCalls,          \* number of onProgress calls
    lastProgress,           \* <<counters of the last onProgress call>>, <<>> before
    stats,                  \* <<the final Stats>>, <<>> before
    \* ---- processVideoFile as a whole (useVideoDemuxDecoder.ts:75-542)
    isLoading,              \* the isLoading ref
    error,                  \* the error ref: "null", or the kind of the error stored
    promise,                \* the promise returned: "pending", "resolved", "rejected"
    streams,                \* iformatContext.streams: the role of each stream, <<>> before analysis
    extradata,              \* codecpar.extradata of the video stream; <<>>: none (size 0)
    description,            \* the local "description": <<>> (undefined) or <<bytes>>
    extractCalls,           \* calls of extractH264Description / extractH265Description
    player,                 \* the local "player": <<>> (null) or <<the options it was built with>>
    playersConstructed,     \* number of "new WebcodecPlayer(...)" evaluated
    configResult,           \* how createDecoder of that player ended, "none" before
    videoFrameCache,        \* sequence of [data, isKeyframe, packetIndex]
    lastPkt,                \* <<the packet of the last loop pass>>, <<>> before and
                            \* after the loop
    \* ---- the wait for the end of the pacing phase (useVideoDemuxDecoder.ts:502-525)
    paceStart,              \* clock value at which the wait began
    intervalAt,             \* clock value at which the interval callback runs next
    watchdogAt,             \* clock value at which the timeout callback runs
    decodeThrows,           \* cache positions of the frames whose player.decode call
                            \* throws: none, or the first
    \* ---- description extraction applied to a payload (codec-description.ts)
    exCodec,                \* "h264" or "h265"
    exUnits,                \* the NAL units the payload is made of
    exResult,               \* <<>> before the call, then <<what the call returned>>
    \* ---- the source and the callbacks of the IOReader (useVideoDemuxDecoder.ts:75-185)
    source,                 \* the argument: a File of some size, or a URL string
    fileSize,               \* the local "fileSize"
    fileData,               \* the local "fileData": <<>> (null) or <<its length>>
    readPos,                \* the local "readPos"
    sizeFirst,              \* <<the first value assigned to fileSize after the reset>>
    loadFault,              \* a request of the load threw or was answered with an
                            \* error status, or reading the File failed
    lastFlush,              \* <<what the last onFlush call saw and returned>>
    flushCalls,             \* calls of onFlush
    seekCalls,              \* calls of onSeek
    lastSize,               \* <<what the last onSize call returned>>
    \* ---- selectFormat applied to a source (useVideoDemuxDecoder.ts:40-68)
    fmtSource,              \* the argument: a File name or a string
    fmtResult,              \* <<>> before the call, then <<the grammar returned>>
    \* ---- the keyframe test of the loop applied to a payload (lines 324-333)
    kfInput,                \* codec and layout of the payload
    kfResult,               \* <<>> before the test, then <<its result>>
    \* ---- the description built from units (codec-description.ts:57-75)
    bdLengths,              \* the byte lengths of the units in nalUnits
    bdResult,               \* <<>> before the call, then <<what was written>>
    \* ---- two invocations of processVideoFile on one useVideoDemuxDecoder
    runPhase                \* per invocation: where it is in processVideoFile

scVars == <<encodeVideoChunkQueue, preTime, firstFrameTime, reqId, paused, onFrame,
            rafPending, now, delivered, enqueued, errorLogged, lastBranch, lastEmitted,
            onTimeTicks, destroyCalls, playerDestroyCalls, lastOp>>
playerVars == <<speedControl, decoder, decoderProfile, videoRender, playerError>>
runVars == <<isLoading, error, promise, streams, extradata, description, extractCalls,
             player, playersConstructed, configResult, videoFrameCache, lastPkt,
             paceStart, intervalAt, watchdogAt, decodeThrows>>
paceVars == <<paceStart, intervalAt, watchdogAt, decodeThrows>>
exVars == <<exCodec, exUnits, exResult>>
srcVars == <<source, fileSize, fileData, readPos, sizeFirst, loadFault, lastFlush,
             flushCalls, seekCalls, lastSize>>
fmtVars == <<fmtSource, fmtResult>>
kfVars == <<kfInput, kfResult>>
bdVars == <<bdLengths, bdResult>>
auxVars == <<srcVars, fmtVars, kfVars, bdVars, runPhase>>
ingestVars == <<pc, codecType, videoStreamIndex, hasOnProgress, readResult,
                contextDestroys, packetDestroys, packetCount, videoPacketCount,
                keyframeCount, progressCalls, lastProgress, stats, runVars, exVars,
                auxVars>>
vars == <<scVars, playerVars, ingestVars>>

\* Math.min
Min(a, b) == IF a <= b THEN a ELSE b

----------------------------------------------------------------------------
\* Bounds of the model.

\* The clock stops advancing here.
MaxTime == 125
\* At most this many chunks are enqueued in one run.
MaxChunks == 3
\* The demultiplexer returns at most this many video-stream packets, and at
\* most MaxOtherPackets packets of other streams, before the end of the stream;
\* at most MaxKeyframes of the video packets are keyframes.
MaxVideoPackets == 200
MaxOtherPackets == 2
MaxKeyframes == 4
\* At most MaxPad bytes precede the unit of a payload under the keyframe test.
MaxPad == 101

\* Time between two frame callbacks: a 60 Hz frame, and frames
\* late enough to land on either side of both thresholds.
Deltas == {17, 35, 53, 70}

----------------------------------------------------------------------------
\* SpeedControl

\* private frameInterval: number = 35
frameInterval == 35

\* requestAnimationFrame returns a non-zero handle; only "zero or not" is read.
RafHandle == 1

\* What a consumer invocation does: return normally, throw, or call destroy()
\* on the scheduler before returning.
\* Mutant of ProgramConsumer: the consumer has no try/catch of its own.
ProgramConsumer_Unguarded == {"return", "throw"}

ProgramConsumer == {"return"}
AnyConsumer == {"return", "throw", "destroy"}

\* The scheduler as one record, so that a handler is a function of it.
\* thrown: an exception is propagating (inside reqFrame only).
SC == [queue |-> encodeVideoChunkQueue, preTime |-> preTime,
       firstFrameTime |-> firstFrameTime, reqId |-> reqId, paused |-> paused,
       onFrame |-> onFrame, rafPending |-> rafPending, delivered |-> delivered,
       thrown |-> FALSE]

\* destroy(): cancel the pending frame callback, drop the queue and the consumer.
\* cancelAnimationFrame of a handle whose callback already ran cancels nothing.
Destroy(s) ==
    [s EXCEPT !.rafPending = IF s.reqId # 0 THEN FALSE ELSE @,
              !.reqId = 0,
              !.queue = <<>>,
              !.onFrame = "null"]

\* Mutant of Consume: the "if (encodeVideoChunk)" test is missing, so an empty
\* queue hands undefined (0 here) to the consumer.
Consume_NoEmptyCheck(s, beh) ==
    LET chunk == IF s.queue = <<>> THEN 0 ELSE Head(s.queue)
        s1 == [s EXCEPT !.queue = IF @ = <<>> THEN @ ELSE Tail(@)]
    IN IF s1.onFrame = "null" THEN [s1 EXCEPT !.thrown = TRUE]
       ELSE LET s2 == [s1 EXCEPT !.delivered = Append(@, chunk)]
            IN CASE beh = "return" -> s2
                 [] beh = "throw" -> [s2 EXCEPT !.thrown = TRUE]
                 [] beh = "destroy" -> Destroy(s2)

\* Mutant of Consume: the head of the queue is read but not removed.
Consume_KeepsHead(s, beh) ==
    IF s.queue = <<>> THEN s
    ELSE LET chunk == Head(s.queue)
         IN IF s.onFrame = "null" THEN [s EXCEPT !.thrown = TRUE]
            ELSE LET s2 == [s EXCEPT !.delivered = Append(@, chunk)]
                 IN CASE beh = "return" -> s2
                      [] beh = "throw" -> [s2 EXCEPT !.thrown = TRUE]
                      [] beh = "destroy" -> Destroy(s2)

\* consume(): shift the queue; hand the chunk, when there is one, to onFrame.
\* Calling onFrame when it is null throws a TypeError.
Consume(s, beh) ==
    IF s.queue = <<>> THEN s
    ELSE LET chunk == Head(s.queue)
             s1 == [s EXCEPT !.queue = Tail(@)]
         IN IF s1.onFrame = "null" THEN [s1 EXCEPT !.thrown = TRUE]
            ELSE LET s2 == [s1 EXCEPT !.delivered = Append(@, chunk)]
                 IN CASE beh = "return" -> s2
                      [] beh = "throw" -> [s2 EXCEPT !.thrown = TRUE]
                      [] beh = "destroy" -> Destroy(s2)

\* Mutant of ReqFrameBody: the catch-up branch advances the baseline by one
\* interval instead of setting it to the tick time.
ReqFrameBody_CatchUpAdvances(s, time, b1, b2) ==
    IF s.firstFrameTime = 0 THEN s
    ELSE LET offset == time - s.preTime IN
         IF 2 * offset >= 3 * frameInterval
         THEN LET s1 == [s EXCEPT !.preTime = s.preTime + frameInterval] IN
              IF s1.paused THEN s1
              ELSE LET s2 == Consume(s1, b1) IN
                   IF s2.thrown THEN s2 ELSE Consume(s2, b2)
         ELSE IF offset >= frameInterval
         THEN LET s1 == [s EXCEPT !.preTime = s.preTime + frameInterval] IN
              IF s1.paused THEN s1 ELSE Consume(s1, b1)
         ELSE s

\* Mutant of ReqFrameBody: the on-time branch sets the baseline to the tick time.
ReqFrameBody_OnTimeResets(s, time, b1, b2) ==
    IF s.firstFrameTime = 0 THEN s
    ELSE LET offset == time - s.preTime IN
         IF 2 * offset >= 3 * frameInterval
         THEN LET s1 == [s EXCEPT !.preTime = time] IN
              IF s1.paused THEN s1
              ELSE LET s2 == Consume(s1, b1) IN
                   IF s2.thrown THEN s2 ELSE Consume(s2, b2)
         ELSE IF offset >= frameInterval
         THEN LET s1 == [s EXCEPT !.preTime = time] IN
              IF s1.paused THEN s1 ELSE Consume(s1, b1)
         ELSE s

\* Mutant of ReqFrameBody: the baseline is updated inside "if (!this.paused)".
ReqFrameBody_PausedFreezesBaseline(s, time, b1, b2) ==
    IF s.firstFrameTime = 0 THEN s
    ELSE LET offset == time - s.preTime IN
         IF 2 * offset >= 3 * frameInterval
         THEN IF s.paused THEN s
              ELSE LET s1 == [s EXCEPT !.preTime = time]
                       s2 == Consume(s1, b1)
                   IN IF s2.thrown THEN s2 ELSE Consume(s2, b2)
         ELSE IF offset >= frameInterval
         THEN IF s.paused THEN s
              ELSE Consume([s EXCEPT !.preTime = s.preTime + frameInterval], b1)
         ELSE s

\* The try block of reqFrame(time); b1, b2: what the consumer does on the
\* first and on the second invocation of this tick.
ReqFrameBody(s, time, b1, b2) ==
    IF s.firstFrameTime = 0 THEN s
    ELSE LET offset == time - s.preTime IN
         IF 2 * offset >= 3 * frameInterval
         THEN LET s1 == [s EXCEPT !.preTime = time] IN
              IF s1.paused THEN s1
              ELSE LET s2 == Consume(s1, b1) IN
                   IF s2.thrown THEN s2 ELSE Consume(s2, b2)
         ELSE IF offset >= frameInterval
         THEN LET s1 == [s EXCEPT !.preTime = s.preTime + frameInterval] IN
              IF s1.paused THEN s1 ELSE Consume(s1, b1)
         ELSE s

\* Mutant of ReqFrame: the finally block does not register the callback again.
ReqFrame_RunsOnce(s, time, b1, b2) ==
    ReqFrameBody([s EXCEPT !.rafPending = FALSE], time, b1, b2)

\* reqFrame(time): the callback leaves the browser's list, the body runs, the
\* catch block absorbs what it threw, and finally the callback re-registers.
ReqFrame(s, time, b1, b2) ==
    LET s1 == ReqFrameBody([s EXCEPT !.rafPending = FALSE], time, b1, b2)
    IN [s1 EXCEPT !.reqId = RafHandle, !.rafPending = TRUE]

\* Mutant of AddEncodeVideoChunk: every call records the time, not only the first.
AddEncodeVideoChunk_AlwaysRecords(s, chunk, t) ==
    [s EXCEPT !.queue = Append(@, chunk), !.firstFrameTime = t, !.preTime = t]

\* addEncodeVideoChunk(chunk) at clock value t.
AddEncodeVideoChunk(s, chunk, t) ==
    LET s1 == [s EXCEPT !.queue = Append(@, chunk)]
    IN IF s1.firstFrameTime = 0
       THEN [s1 EXCEPT !.firstFrameTime = t, !.preTime = t]
       ELSE s1

\* getQueueSize()
getQueueSize == Len(encodeVideoChunkQueue)

\* Which branch reqFrame(time) takes from the current state.
Branch(time) ==
    IF firstFrameTime = 0 THEN "idle"
    ELSE IF 2 * (time - preTime) >= 3 * frameInterval THEN "catchup"
    ELSE IF time - preTime >= frameInterval THEN "ontime"
    ELSE "wait"

\* Counting calls up to "two or more".
OneMore(n) == IF n = 0 THEN 1 ELSE 2

\* Write a scheduler record back to the fields.
SetSC(s) ==
    /\ encodeVideoChunkQueue' = s.queue
    /\ preTime' = s.preTime
    /\ firstFrameTime' = s.firstFrameTime
    /\ reqId' = s.reqId
    /\ paused' = s.paused
    /\ onFrame' = s.onFrame
    /\ rafPending' = s.rafPending
    /\ delivered' = s.delivered

\* The browser runs the registered frame callback, d ms after the last event.
Tick(behs) ==
    /\ rafPending
    /\ \E d \in Deltas, b1 \in behs, b2 \in behs :
         /\ now + d <= MaxTime
         /\ now' = now + d
         /\ LET s == ReqFrame(SC, now + d, b1, b2) IN
              /\ SetSC(s)
              /\ errorLogged' = s.thrown
              /\ lastEmitted' = Len(s.delivered) - Len(delivered)
         /\ lastBranch' = Branch(now + d)
         /\ onTimeTicks' = CASE Branch(now + d) = "ontime" /\ onTimeTicks >= 0
                                  -> onTimeTicks + 1
                             [] Branch(now + d) = "catchup" -> -1
                             [] OTHER -> onTimeTicks
    /\ destroyCalls' = IF onFrame' # onFrame THEN OneMore(destroyCalls) ELSE destroyCalls
    /\ lastOp' = "tick"
    /\ UNCHANGED <<enqueued, playerDestroyCalls, playerVars, ingestVars>>

\* A caller enqueues the next chunk; chunks are numbered in enqueue order.
Add ==
    /\ enqueued < MaxChunks
    /\ SetSC(AddEncodeVideoChunk(SC, enqueued + 1, now))
    /\ enqueued' = enqueued + 1
    /\ onTimeTicks' = IF firstFrameTime = 0 THEN 0 ELSE onTimeTicks
    /\ lastOp' = "add"
    /\ UNCHANGED <<now, errorLogged, lastBranch, lastEmitted, destroyCalls,
                   playerDestroyCalls, playerVars, ingestVars>>

\* setPausedState(p)
SetPausedState ==
    /\ \E p \in BOOLEAN : paused' = p
    /\ lastOp' = "pause"
    /\ UNCHANGED <<encodeVideoChunkQueue, preTime, firstFrameTime, reqId, onFrame,
                   rafPending, now, delivered, enqueued, errorLogged, lastBranch,
                   lastEmitted, onTimeTicks, destroyCalls, playerDestroyCalls,
                   playerVars, ingestVars>>

\* A caller invokes destroy() outside of a frame callback.
DestroyCall ==
    /\ SetSC(Destroy(SC))
    /\ destroyCalls' = OneMore(destroyCalls)
    /\ lastOp' = "destroy"
    /\ UNCHANGED <<now, enqueued, errorLogged, lastBranch, lastEmitted, onTimeTicks,
                   playerDestroyCalls, playerVars, ingestVars>>

----------------------------------------------------------------------------
\* WebcodecPlayer

\* The player as one record; sc is the scheduler its speedControl refers to.
\* error: the call threw.
Player == [speedControl |-> speedControl, decoder |-> decoder,
           decoderProfile |-> decoderProfile, videoRender |-> videoRender,
           error |-> FALSE, sc |-> SC]

\* Mutant of WebcodecPlayerDestroy: "this.decoder = null" is missing, so the
\* closed decoder stays referenced.
WebcodecPlayerDestroy_KeepsDecoder(p) ==
    LET p1 == IF p.speedControl # "null" THEN [p EXCEPT !.sc = Destroy(@)] ELSE p
        p2 == [p1 EXCEPT !.speedControl = "null"]
    IN IF p2.decoder = "closed" THEN [p2 EXCEPT !.error = TRUE]
       ELSE [p2 EXCEPT !.decoder = IF @ = "null" THEN "null" ELSE "closed",
                       !.decoderProfile = "null", !.videoRender = "null"]

\* WebcodecPlayer.destroy(). decoder?.close() throws an InvalidStateError when
\* the decoder it is called on is already closed, and the rest is skipped.
WebcodecPlayerDestroy(p) ==
    LET p1 == IF p.speedControl # "null" THEN [p EXCEPT !.sc = Destroy(@)] ELSE p
        p2 == [p1 EXCEPT !.speedControl = "null"]
    IN IF p2.decoder = "closed" THEN [p2 EXCEPT !.error = TRUE]
       ELSE [p2 EXCEPT !.decoder = "null", !.decoderProfile = "null",
                       !.videoRender = "null"]

\* A caller invokes WebcodecPlayer.destroy().
PlayerDestroyCall ==
    /\ LET p == WebcodecPlayerDestroy(Player) IN
         /\ SetSC(p.sc)
         /\ speedControl' = p.speedControl
         /\ decoder' = p.decoder
         /\ decoderProfile' = p.decoderProfile
         /\ videoRender' = p.videoRender
         /\ playerError' = p.error
    /\ destroyCalls' = IF speedControl # "null" THEN OneMore(destroyCalls)
                       ELSE destroyCalls
    /\ playerDestroyCalls' = OneMore(playerDestroyCalls)
    /\ lastOp' = "playerDestroy"
    /\ UNCHANGED <<now, enqueued, errorLogged, lastBranch, lastEmitted, onTimeTicks,
                   ingestVars>>

----------------------------------------------------------------------------
\* Keyframe detection (keyframe-detector)

\* data[i] of a Uint8Array, indices from 0; undefined outside the array.
Byte(data, i) == IF i >= 0 /\ i < Len(data) THEN data[i + 1] ELSE -1

\* A start code at i and the index of the NAL header byte behind it, or -1.
\* The 4-byte form 00 00 00 01 is tried first, then the 3-byte form 00 00 01.
NalStartAt(data, i) ==
    IF Byte(data, i) = 0 /\ Byte(data, i + 1) = 0 /\ Byte(data, i + 2) = 0
         /\ Byte(data, i + 3) = 1
    THEN i + 4
    ELSE IF Byte(data, i) = 0 /\ Byte(data, i + 1) = 0 /\ Byte(data, i + 2) = 1
    THEN i + 3
    ELSE -1

\* nalType = data[nalStart] & 0x1F; 5 = IDR, 7 = SPS, 8 = PPS
H264KeyType(byte) == (byte % 32) \in {5, 7, 8}

\* Mutant of H265KeyType: the second IDR type (20) is not a keyframe type.
H265KeyType_WithoutIdrNLp(byte) ==
    LET nalType == (byte \div 2) % 64
    IN nalType = 19 \/ (nalType >= 32 /\ nalType <= 34)

\* nalType = (data[nalStart] >> 1) & 0x3F; 19-20 = IDR, 32-34 = VPS, SPS, PPS
H265KeyType(byte) ==
    LET nalType == (byte \div 2) % 64
    IN (nalType >= 19 /\ nalType <= 20) \/ (nalType >= 32 /\ nalType <= 34)

\* isH264Keyframe(data, maxSearchBytes): for (i = 0; i < searchLength - 4; i++)
isH264Keyframe(data, maxSearchBytes) ==
    LET searchLength == IF Len(data) <= maxSearchBytes THEN Len(data) ELSE maxSearchBytes
    IN \E i \in 0..(searchLength - 5) :
         LET nalStart == NalStartAt(data, i)
         IN nalStart # -1 /\ nalStart < Len(data) /\ H264KeyType(Byte(data, nalStart))

\* isH265Keyframe(data, maxSearchBytes)
isH265Keyframe(data, maxSearchBytes) ==
    LET searchLength == IF Len(data) <= maxSearchBytes THEN Len(data) ELSE maxSearchBytes
    IN \E i \in 0..(searchLength - 5) :
         LET nalStart == NalStartAt(data, i)
         IN nalStart # -1 /\ nalStart < Len(data) /\ H265KeyType(Byte(data, nalStart))

\* maxSearchBytes: number = 100
DefaultMaxSearchBytes == 100

\* detectKeyframe(codec, data)
detectKeyframe(codec, data) ==
    CASE codec = "h264" -> isH264Keyframe(data, DefaultMaxSearchBytes)
      [] codec = "h265" -> isH265Keyframe(data, DefaultMaxSearchBytes)
      [] OTHER -> FALSE

----------------------------------------------------------------------------
\* Description extraction (codec-description)

\* Mutant of H264ParamType: the IDR slice (5) counts as a parameter set.
H264ParamType_WithIdr(byte) == (byte % 32) \in {5, 7, 8}

\* nalType = nalByte & 0x1F; SPS (7), PPS (8)
H264ParamType(byte) == (byte % 32) \in {7, 8}

\* nalType = (nalByte >> 1) & 0x3F; VPS (32), SPS (33), PPS (34)
H265ParamType(byte) ==
    LET nalType == (byte \div 2) % 64
    IN nalType >= 32 /\ nalType <= 34

\* The inner loop "for (j = nalStart; j < data.length - 3; j++)": the index of
\* the next start code, 3-byte or 4-byte, or data.length when there is none.
NalEnd(data, nalStart) ==
    LET hits == { j \in nalStart..(Len(data) - 4) :
                    \/ (Byte(data, j) = 0 /\ Byte(data, j + 1) = 0 /\ Byte(data, j + 2) = 1)
                    \/ (Byte(data, j) = 0 /\ Byte(data, j + 1) = 0 /\ Byte(data, j + 2) = 0
                        /\ Byte(data, j + 3) = 1) }
    IN IF hits = {} THEN Len(data)
       ELSE CHOOSE j \in hits : \A k \in hits : j <= k

\* The scan "while (i < data.length - 4)" from index i on: the parameter-set
\* units found (nalUnits), each data.subarray(nalStart, nalEnd). After a start
\* code the scan goes on at nalStart, otherwise at i + 1.
RECURSIVE ScanNalUnits(_, _, _)
ScanNalUnits(codec, data, i) ==
    IF ~(i < Len(data) - 4) THEN <<>>
    ELSE LET nalStart == NalStartAt(data, i) IN
         IF nalStart >= 0
         THEN LET nalEnd == NalEnd(data, nalStart)
                  isParam == IF codec = "h264" THEN H264ParamType(Byte(data, nalStart))
                             ELSE H265ParamType(Byte(data, nalStart))
                  rest == ScanNalUnits(codec, data, nalStart)
              IN IF nalStart < nalEnd /\ nalStart < Len(data) /\ isParam
                 THEN <<SubSeq(data, nalStart + 1, nalEnd)>> \o rest
                 ELSE rest
         ELSE ScanNalUnits(codec, data, i + 1)

\* The description built from nalUnits: before each unit its length in two
\* bytes, (length >> 8) & 0xFF and length & 0xFF.
RECURSIVE BuildDescription(_)
BuildDescription(nalUnits) ==
    IF nalUnits = <<>> THEN <<>>
    ELSE LET nal == Head(nalUnits)
         IN <<(Len(nal) \div 256) % 256, Len(nal) % 256>> \o nal
              \o BuildDescription(Tail(nalUnits))

\* extractH264Description(data) / extractH265Description(data): <<>> stands for
\* undefined (no parameter-set unit found), <<bytes>> for a description.
ExtractDescription(codec, data) ==
    LET nalUnits == ScanNalUnits(codec, data, 0)
    IN IF nalUnits = <<>> THEN <<>> ELSE <<BuildDescription(nalUnits)>>

\* At most this many NAL units in a payload handed to the extraction.
MaxUnits == 3

\* The bytes of a NAL unit, header byte first. Under h264 (byte & 0x1F):
\* 103 = SPS (7), 104 = PPS (8), 101 = IDR slice (5), 65 = non-IDR slice (1).
\* Under h265 ((byte >> 1) & 0x3F): 64 = VPS (32), 66 = SPS (33), 68 = PPS (34),
\* 38 = IDR slice (19). A unit read under the other family has another type,
\* which is not a parameter set. Every unit has a header byte and at least
\* one byte after it.
UnitBodies ==
    { <<103, 66>>, <<104, 206, 60>>, <<101, 136>>,
      <<64, 1>>, <<68, 1, 1>>, <<38, 1>> }

\* A unit behind its start code: sc = 3 for 00 00 01, 4 for 00 00 00 01.
Units == [sc : {3, 4}, body : UnitBodies]

StartCode(sc) == IF sc = 4 THEN <<0, 0, 0, 1>> ELSE <<0, 0, 1>>

\* The payload made of the units us, in order.
RECURSIVE PayloadOf(_)
PayloadOf(us) ==
    IF us = <<>> THEN <<>>
    ELSE StartCode(Head(us).sc) \o Head(us).body \o PayloadOf(Tail(us))

\* The unit lists handed to the extraction: one to MaxUnits units.
UnitLists == UNION { [1..n -> Units] : n \in 1..MaxUnits }

\* n filler bytes: no start code, no unit.
Filler(n) == [i \in 1..n |-> 255]

\* Unit lengths up to this one are all tried, besides those around 2^8 and 2^16.
MaxUnitLen == 8

\* The byte lengths of the units handed to the builder of the description:
\* data.subarray(nalStart, nalEnd) has no upper limit.
UnitLengths == (1..MaxUnitLen) \cup {255, 256, 257, 65535, 65536, 65537}

\* One or two units.
LengthLists == UNION { [1..n -> UnitLengths] : n \in 1..2 }

\* "offset" when the k-th unit is written: it starts at 0 and grows by
\* 2 + nal.length after each unit.
RECURSIVE OffsetOf(_, _)
OffsetOf(lengths, k) ==
    IF k = 1 THEN 0 ELSE OffsetOf(lengths, k - 1) + 2 + lengths[k - 1]

\* The second part of the extraction functions, applied to units of the
\* lengths bdLengths: what is observed of the description is its length and, per
\* unit, the two bytes written at description[offset] and
\* description[offset + 1].
BuildCall ==
    /\ bdLengths # <<>>
    /\ bdResult = <<>>
    /\ LET nalUnits == [k \in 1..Len(bdLengths) |-> Filler(bdLengths[k])]
           built == BuildDescription(nalUnits)
       IN bdResult' = <<[totalLength |-> Len(built),
                         prefixes |-> [k \in 1..Len(bdLengths) |->
                                         SubSeq(built,
                                                OffsetOf(bdLengths, k) + 1,
                                                OffsetOf(bdLengths, k) + 2)]]>>
    /\ UNCHANGED <<bdLengths, srcVars, fmtVars, kfVars, runPhase, exVars, scVars, playerVars,
                   runVars, pc, codecType, videoStreamIndex, hasOnProgress,
                   readResult, contextDestroys, packetDestroys, packetCount,
                   videoPacketCount, keyframeCount, progressCalls, lastProgress,
                   stats>>

\* Units of a header byte alone: a PPS of h264 (104), a PPS of h265 (68) and a
\* non-IDR slice of h264 (65).
ShortBodies == { <<104>>, <<68>>, <<65>> }

\* The unit lists of a full-payload scan: one to MaxUnits units, each of one
\* byte or more, behind a 3-byte or a 4-byte start code.
FullUnitLists ==
    UNION { [1..n -> [sc : {3, 4}, body : UnitBodies \cup ShortBodies]] :
              n \in 1..MaxUnits }

\* The extraction function is called on the payload made of exUnits.
ExtractCall ==
    /\ exResult = <<>>
    /\ exUnits # <<>>
    /\ exResult' = <<ExtractDescription(exCodec, PayloadOf(exUnits))>>
    /\ UNCHANGED <<exCodec, exUnits, scVars, playerVars, pc, codecType,
                   videoStreamIndex, hasOnProgress, readResult, contextDestroys,
                   packetDestroys, packetCount, videoPacketCount, keyframeCount,
                   progressCalls, lastProgress, stats, runVars, auxVars>>

----------------------------------------------------------------------------
\* selectFormat (useVideoDemuxDecoder.ts:40-68). A string is a sequence of
\* one-character strings.

\* The suffixes of line 57 and those of line 60.
IsoExts == {<<".", "m", "p", "4">>, <<".", "m", "4", "v">>, <<".", "m", "o", "v">>}
TsExts == {<<".", "t", "s">>, <<".", "m", "2", "t", "s">>, <<".", "m", "t", "s">>}

\* Extensions a source may carry besides: some of the table in another case,
\* one that is not in the table, and none.
OtherExts == {<<".", "M", "P", "4">>, <<".", "M", "o", "V">>, <<".", "T", "S">>,
              <<".", "b", "i", "n">>, <<>>}

\* The start of an absolute URL: scheme and host.
Origin == <<"h", "t", "t", "p", ":", "/", "/", "x">>

\* The sources selectFormat is applied to: a File name or a string, made of an
\* optional origin, a path "/a" or a name "a", an extension (or none) and an
\* optional tail "?q" or "#q" with an extension of its own (or none). A File
\* name has no origin.
FormatSources ==
    {src \in [kind : {"file", "string"},
              absolute : BOOLEAN,
              ext : IsoExts \cup TsExts \cup OtherExts,
              tail : {<<>>} \cup [sep : {"?", "#"},
                                  ext : {<<>>, <<".", "m", "p", "4">>,
                                         <<".", "t", "s">>}]] :
       src.kind = "file" => ~src.absolute}

\* The characters of a source.
TextOf(src) ==
    (IF src.absolute THEN Origin \o <<"/", "a">> ELSE <<"a">>)
    \o src.ext
    \o (IF src.tail = <<>> THEN <<>> ELSE <<src.tail.sep, "q">> \o src.tail.ext)

\* toLowerCase of one character of the alphabet in use.
LowerChar(c) ==
    CASE c = "M" -> "m"
      [] c = "P" -> "p"
      [] c = "V" -> "v"
      [] c = "T" -> "t"
      [] c = "S" -> "s"
      [] OTHER -> c

\* Mutant of ToLowerCase: the case is kept.
ToLowerCase_Kept(text) == text

\* String.prototype.toLowerCase
ToLowerCase(text) == [i \in 1..Len(text) |-> LowerChar(text[i])]

\* String.prototype.endsWith
EndsWith(text, suffix) ==
    /\ Len(suffix) <= Len(text)
    /\ SubSeq(text, Len(text) - Len(suffix) + 1, Len(text)) = suffix

\* new URL(text) (line 47): <<>> when it throws, which it does for a string
\* that is no absolute URL; else <<the pathname>>: what follows the host, up
\* to the first "?" or "#".
UrlPathname(text) ==
    IF ~(Len(text) >= Len(Origin) /\ SubSeq(text, 1, Len(Origin)) = Origin)
    THEN <<>>
    ELSE LET rest == SubSeq(text, Len(Origin) + 1, Len(text))
             stops == {i \in 1..Len(rest) : rest[i] \in {"?", "#"}}
             stop == IF stops = {} THEN Len(rest) + 1
                     ELSE CHOOSE i \in stops : \A j \in stops : i <= j
             path == SubSeq(rest, 1, stop - 1)
         IN <<IF path = <<>> THEN <<"/">> ELSE path>>

\* selectFormat: the grammar chosen for a source.
selectFormat(src) ==
    LET text == TextOf(src)
        fileName == IF src.kind = "file" THEN ToLowerCase(text)
                    ELSE IF UrlPathname(text) # <<>>
                    THEN ToLowerCase(UrlPathname(text)[1])
                    ELSE ToLowerCase(text)
    IN IF \E e \in IsoExts : EndsWith(fileName, e)
       THEN "IIsobmffFormat"
       ELSE IF \E e \in TsExts : EndsWith(fileName, e)
       THEN "IMpegtsFormat"
       ELSE "IMpegtsFormat"

\* One call of selectFormat (line 84).
SelectFormatCall ==
    /\ fmtResult = <<>>
    /\ fmtResult' = <<selectFormat(fmtSource)>>
    /\ UNCHANGED <<fmtSource, srcVars, kfVars, bdVars, runPhase, exVars, scVars, playerVars, runVars,
                   pc, codecType, videoStreamIndex, hasOnProgress, readResult,
                   contextDestroys, packetDestroys, packetCount, videoPacketCount,
                   keyframeCount, progressCalls, lastProgress, stats>>

----------------------------------------------------------------------------
\* processVideoFile: the ingestion loop

\* onProgress is called each time the video packet count reaches a multiple of this.
ProgressEvery == 100

\* Payloads a packet may carry (pkt.data, pkt.size = Len): none, one too short
\* to be scanned, a non-IDR slice, an H.264 IDR slice behind a 3-byte start
\* code, an H.264 SPS behind a 4-byte start code, an H.265 IDR slice.
Payloads ==
    { <<>>,
      <<0, 0, 1, 101>>,
      <<0, 0, 1, 65, 154>>,
      <<0, 0, 1, 101, 136>>,
      <<0, 0, 0, 1, 103, 66>>,
      <<0, 0, 0, 1, 38, 1>> }

\* Streams a packet may belong to.
StreamIndexes == {0, 1}

\* The packets readAVPacket may deliver: flagKey is flags & AV_PKT_FLAG_KEY.
Packets == [streamIndex : StreamIndexes, flagKey : BOOLEAN, data : Payloads]

\* The counters of the loop as one record.
Counters == [packetCount |-> packetCount, videoPacketCount |-> videoPacketCount,
             keyframeCount |-> keyframeCount, progressCalls |-> progressCalls,
             lastProgress |-> lastProgress]

\* Mutant of IsKeyframe: the scan is left out, only the container flag counts.
IsKeyframe_FlagOnly(codec, pkt) == pkt.flagKey

\* isKeyframe of a video packet: the container flag, or the scan of the first
\* 100 bytes when the payload has more than 4 bytes.
IsKeyframe(codec, pkt) ==
    \/ pkt.flagKey
    \/ (Len(pkt.data) > 4
        /\ detectKeyframe(codec,
                          SubSeq(pkt.data, 1, IF Len(pkt.data) <= 100 THEN Len(pkt.data)
                                              ELSE 100)))

\* The payloads the keyframe test is applied to: for either family, MaxPad
\* or fewer filler bytes, one unit behind a start code of 3 or 4 bytes, made
\* of its type byte (an IDR slice or another slice of the family in
\* question or of the other one) and of some more filler bytes.
ScanInputs ==
    [codec : {"h264", "h265"}, pad : 0..MaxPad, sc : {3, 4},
     byte : {101, 65, 38, 2}, tail : {0, 1, 10}]

\* The bytes of such a payload.
ScanPayload(in) ==
    Filler(in.pad) \o StartCode(in.sc) \o <<in.byte>> \o Filler(in.tail)

\* Lines 324-333 for a video packet that the container did not flag: the
\* scan of the first 100 bytes decides.
KeyframeTest ==
    /\ kfInput # <<>>
    /\ kfResult = <<>>
    /\ kfResult' = <<IsKeyframe(kfInput[1].codec,
                                [streamIndex |-> 0, flagKey |-> FALSE,
                                 data |-> ScanPayload(kfInput[1])])>>
    /\ UNCHANGED <<kfInput, srcVars, fmtVars, bdVars, runPhase, exVars, scVars, playerVars, runVars,
                   pc, codecType, videoStreamIndex, hasOnProgress, readResult,
                   contextDestroys, packetDestroys, packetCount, videoPacketCount,
                   keyframeCount, progressCalls, lastProgress, stats>>

\* Mutant of CountPacket: keyframes are counted before the test for the video
\* stream, so a flagged packet of another stream counts as a keyframe.
CountPacket_KeyframesOfAnyStream(c, pkt, codec, vsi, progress) ==
    LET c1 == [c EXCEPT !.packetCount = @ + 1,
                        !.keyframeCount = IF pkt.flagKey THEN @ + 1 ELSE @]
        isVideoPacket == vsi >= 0 /\ pkt.streamIndex = vsi
    IN IF ~isVideoPacket THEN c1
       ELSE LET c2 == [c1 EXCEPT !.videoPacketCount = @ + 1]
                c3 == IF ~pkt.flagKey /\ IsKeyframe(codec, pkt)
                      THEN [c2 EXCEPT !.keyframeCount = @ + 1] ELSE c2
            IN IF progress /\ c3.videoPacketCount % ProgressEvery = 0
               THEN [c3 EXCEPT !.progressCalls = @ + 1,
                               !.lastProgress = <<[videoPackets |-> c3.videoPacketCount,
                                                   keyframes |-> c3.keyframeCount,
                                                   totalPackets |-> c3.packetCount]>>]
               ELSE c3

\* Mutant of CountPacket: the progress test stands after the block of the
\* video stream, so it is made for every packet.
CountPacket_ProgressOnAnyPacket(c, pkt, codec, vsi, progress) ==
    LET c1 == [c EXCEPT !.packetCount = @ + 1]
        isVideoPacket == vsi >= 0 /\ pkt.streamIndex = vsi
        c2 == IF isVideoPacket THEN [c1 EXCEPT !.videoPacketCount = @ + 1] ELSE c1
        c3 == IF isVideoPacket /\ IsKeyframe(codec, pkt)
              THEN [c2 EXCEPT !.keyframeCount = @ + 1] ELSE c2
    IN IF progress /\ c3.videoPacketCount % ProgressEvery = 0
       THEN [c3 EXCEPT !.progressCalls = @ + 1,
                       !.lastProgress = <<[videoPackets |-> c3.videoPacketCount,
                                           keyframes |-> c3.keyframeCount,
                                           totalPackets |-> c3.packetCount]>>]
       ELSE c3

\* One pass of the loop body for packet pkt (lines 314-353): count the packet,
\* and for a packet of the video stream count it, classify it, and report
\* progress every ProgressEvery video packets.
CountPacket(c, pkt, codec, vsi, progress) ==
    LET c1 == [c EXCEPT !.packetCount = @ + 1]
        isVideoPacket == vsi >= 0 /\ pkt.streamIndex = vsi
    IN IF ~isVideoPacket THEN c1
       ELSE LET c2 == [c1 EXCEPT !.videoPacketCount = @ + 1]
                c3 == IF IsKeyframe(codec, pkt)
                      THEN [c2 EXCEPT !.keyframeCount = @ + 1] ELSE c2
            IN IF progress /\ c3.videoPacketCount % ProgressEvery = 0
               THEN [c3 EXCEPT !.progressCalls = @ + 1,
                               !.lastProgress = <<[videoPackets |-> c3.videoPacketCount,
                                                  keyframes |-> c3.keyframeCount,
                                                  totalPackets |-> c3.packetCount]>>]
               ELSE c3

SetCounters(c) ==
    /\ packetCount' = c.packetCount
    /\ videoPacketCount' = c.videoPacketCount
    /\ keyframeCount' = c.keyframeCount
    /\ progressCalls' = c.progressCalls
    /\ lastProgress' = c.lastProgress

\* readAVPacket returned 0: the loop body runs for the packet.
ReadPacket ==
    /\ pc = "reading"
    /\ \E pkt \in Packets :
         /\ IF pkt.streamIndex = videoStreamIndex
            THEN videoPacketCount < MaxVideoPackets
            ELSE packetCount - videoPacketCount < MaxOtherPackets
         /\ SetCounters(CountPacket(Counters, pkt, codecType, videoStreamIndex,
                                    hasOnProgress))
    /\ keyframeCount' <= MaxKeyframes
    /\ readResult' = "ok"
    /\ UNCHANGED <<pc, codecType, videoStreamIndex, hasOnProgress, contextDestroys,
                   packetDestroys, stats, scVars, playerVars, runVars, exVars, auxVars>>

\* readAVPacket returned IOError.END: release the context and the packet, leave
\* the loop.
ReadEnd ==
    /\ pc = "reading"
    /\ readResult' = "END"
    /\ contextDestroys' = contextDestroys + 1
    /\ packetDestroys' = packetDestroys + 1
    /\ pc' = "read"
    /\ UNCHANGED <<codecType, videoStreamIndex, hasOnProgress, packetCount,
                   videoPacketCount, keyframeCount, progressCalls, lastProgress, stats,
                   scVars, playerVars, runVars, exVars, auxVars>>

\* readAVPacket returned another non-zero status: leave the loop.
ReadError ==
    /\ pc = "reading"
    /\ readResult' = "error"
    /\ pc' = "read"
    /\ UNCHANGED <<codecType, videoStreamIndex, hasOnProgress, contextDestroys,
                   packetDestroys, packetCount, videoPacketCount, keyframeCount,
                   progressCalls, lastProgress, stats, scVars, playerVars, runVars,
                   exVars, auxVars>>

\* Mutant of DemuxStats: the ratio is taken over all packets.
DemuxStats_RatioOfAllPackets(c) ==
    [totalPackets |-> c.packetCount,
     videoPackets |-> c.videoPacketCount,
     keyframes |-> c.keyframeCount,
     videoStreamIndex |-> videoStreamIndex,
     keyframeRatio |-> IF c.videoPacketCount > 0
                       THEN [num |-> c.keyframeCount * 100, den |-> c.packetCount]
                       ELSE [num |-> 0, den |-> 1]]

\* demuxStats (lines 442-455); keyframeRatio = keyframeCount / videoPacketCount * 100,
\* kept as the fraction num / den, and 0 / 1 when there is no video packet.
DemuxStats(c) ==
    [totalPackets |-> c.packetCount,
     videoPackets |-> c.videoPacketCount,
     keyframes |-> c.keyframeCount,
     videoStreamIndex |-> videoStreamIndex,
     keyframeRatio |-> IF c.videoPacketCount > 0
                       THEN [num |-> c.keyframeCount * 100, den |-> c.videoPacketCount]
                       ELSE [num |-> 0, den |-> 1]]

\* After the loop: the statistics are computed and published.
PublishStats ==
    /\ pc = "read"
    /\ stats' = <<DemuxStats(Counters)>>
    /\ pc' = "done"
    /\ UNCHANGED <<codecType, videoStreamIndex, hasOnProgress, readResult,
                   contextDestroys, packetDestroys, packetCount, videoPacketCount,
                   keyframeCount, progressCalls, lastProgress, scVars, playerVars,
                   runVars, exVars, auxVars>>

----------------------------------------------------------------------------
\* processVideoFile as a whole: source load, open, stream analysis, the loop
\* with description extraction and the frame cache, the statistics, the pacing
\* phase and the return.
\* pc: "loading" (awaiting the source), "opening" (awaiting demux.open),
\* "analyzing" (awaiting demux.analyzeStreams), "reading", "read", "pacing"
\* (awaiting the completion promise), "returned", "failed" (an error was thrown).

\* At most this many packets are read in a whole run.
MaxRunPackets == 2
\* The clock of the pacing phase of a whole run stops advancing here.
MaxPaceTime == 54
\* The IOReader calls onFlush at most MaxReads times and onSeek at most
\* MaxSeeks times.
MaxReads == 3
MaxSeeks == 1

\* Line 504: the duration one cached frame is expected to take, in milliseconds.
FrameDuration == 40

\* Line 519: the period of the interval callback of the wait, in milliseconds.
CheckPeriod == 1000

\* What stream analysis may find: the role of each stream, in index order.
\* Line 111: a source is read into memory when its probed size is below this.
MaxMemorySize == 200 * 1024 * 1024

\* The sources processVideoFile may be given: a File of some size, or a URL.
Sources == {[kind |-> "file", size |-> 0], [kind |-> "file", size |-> 3],
            [kind |-> "url", size |-> 0]}

\* What the HEAD request of line 106 may do: throw, or answer with a success
\* or an error status and with or without a content-length header.
HeadResponses ==
    [throws : {TRUE}, ok : {FALSE}, contentLength : {<<>>}]
    \cup [throws : {FALSE}, ok : BOOLEAN,
          contentLength : {<<>>, <<3>>, <<MaxMemorySize>>}]

\* What the GET request of line 114 may do: throw (the request or the reading
\* of its body), or answer with a success or an error status and a body.
GetResponses ==
    [throws : {TRUE}, ok : {FALSE}, byteLength : {0}]
    \cup [throws : {FALSE}, ok : BOOLEAN, byteLength : {3, 5}]

RunStreams == { <<>>, <<"audio">>, <<"video", "video">>, <<"audio", "video">> }

\* Out-of-band parameter bytes of the video stream: none, or some bytes.
Extradatas == { <<>>, <<1, 100, 0, 31>> }

\* Payloads of the packets of a whole run: none; a slice behind a 3-byte
\* start code (no keyframe type under h264, a VPS under h265); SPS, PPS and
\* IDR slice of h264 (no keyframe type under h265).
RunPayloads ==
    { <<>>,
      <<0, 0, 1, 65, 154>>,
      <<0, 0, 0, 1, 103, 66, 0, 0, 1, 104, 206, 0, 0, 1, 101, 136>> }

RunPackets == [streamIndex : StreamIndexes, flagKey : BOOLEAN, data : RunPayloads]

\* What VideoDecoder.isConfigSupported does: answers supported, answers
\* unsupported, or throws.
Supports == {"supported", "unsupported", "throws"}

\* The refs and the returned promise as one record.
Refs == [error |-> error, isLoading |-> isLoading, promise |-> promise]

\* Mutant of CatchBlock: "isLoading.value = false" is missing.
CatchBlock_KeepsLoading(r, err) ==
    [r EXCEPT !.error = err, !.promise = "rejected"]

\* catch (err) { error.value = err; isLoading.value = false; throw err; }
\* (lines 120-125 and 536-541): the promise of the async function rejects.
CatchBlock(r, err) ==
    [r EXCEPT !.error = err, !.isLoading = FALSE, !.promise = "rejected"]

SetRefs(r) ==
    /\ error' = r.error
    /\ isLoading' = r.isLoading
    /\ promise' = r.promise

\* Mutant of FindVideoStream: the loop has no break, the last video stream wins.
FindVideoStream_Last(ss, i) ==
    LET video == {j \in (i + 1)..Len(ss) : ss[j] = "video"} IN
      IF video = {} THEN -1
      ELSE (CHOOSE j \in video : \A k \in video : k <= j) - 1

\* The loop of lines 215-225 from index i on: the first stream of the video
\* type, or -1.
RECURSIVE FindVideoStream(_, _)
FindVideoStream(ss, i) ==
    IF i >= Len(ss) THEN -1
    ELSE IF ss[i + 1] = "video" THEN i
    ELSE FindVideoStream(ss, i + 1)

\* Mutant of DescriptionOfExtradata: the extradata is not looked at.
DescriptionOfExtradata_Ignored(ed) == <<>>

\* Lines 250-264: the description is a copy of the extradata when there is some.
DescriptionOfExtradata(ed) == IF Len(ed) > 0 THEN <<ed>> ELSE <<>>

\* createDecoder() (hw-decoder.ts:55-104): no codec string, or an unsupported
\* configuration, is logged and the method returns; a throwing support check
\* is logged and the method goes on; a throwing configure() is logged.
\* Nothing is thrown to the caller.
CreateDecoder(codec, support, configureThrows) ==
    IF codec \notin {"h264", "h265"}
    THEN [decoderProfile |-> "null", decoder |-> "null", result |-> "noCodecString"]
    ELSE IF support = "unsupported"
    THEN [decoderProfile |-> "set", decoder |-> "null", result |-> "unsupported"]
    ELSE [decoderProfile |-> "set", decoder |-> "open",
          result |-> IF configureThrows THEN "configureThrew" ELSE "configured"]

\* createDecoder() from the point where "await VideoDecoder.isConfigSupported"
\* (hw-decoder.ts:71) resumes, with the fields as they are then: an
\* unsupported configuration returns; otherwise (support reported, or the
\* check threw) the decoder is created and assigned, and configure() is called
\* with this.decoderProfile, which throws when the profile is null or the
\* configuration is rejected; the exception is logged.
CreateDecoderAfterAwait(profile, held, support, configureThrows) ==
    IF support = "unsupported"
    THEN [decoder |-> held, result |-> "unsupported"]
    ELSE [decoder |-> "open",
          result |-> IF configureThrows \/ profile = "null" THEN "configureThrew"
                     ELSE "configured"]

\* The continuation of createDecoder() runs, some time after the constructor
\* has returned.
CreateDecoderResumes ==
    /\ configResult = "awaiting"
    /\ \E support \in Supports, configureThrows \in BOOLEAN :
         LET d == CreateDecoderAfterAwait(decoderProfile, decoder, support,
                                          configureThrows)
         IN /\ decoder' = d.decoder
            /\ configResult' = d.result
    /\ UNCHANGED <<scVars, speedControl, decoderProfile, videoRender, playerError,
                   pc, codecType, videoStreamIndex, hasOnProgress, readResult,
                   contextDestroys, packetDestroys, packetCount, videoPacketCount,
                   keyframeCount, progressCalls, lastProgress, stats, isLoading,
                   error, promise, streams, extradata, description, extractCalls,
                   player, playersConstructed, videoFrameCache, lastPkt, paceVars,
                   exVars, auxVars>>

\* Mutant of ConstructPlayer: the player is constructed but not assigned to
\* the variable "player" of processVideoFile.
ConstructPlayer_NotAssigned(codec, desc) ==
    \E support \in Supports, configureThrows \in BOOLEAN :
      LET d == CreateDecoder(codec, support, configureThrows) IN
        /\ player' = <<>>
        /\ playersConstructed' = playersConstructed + 1
        /\ configResult' = d.result
        /\ speedControl' = "sc"
        /\ decoder' = d.decoder
        /\ decoderProfile' = d.decoderProfile
        /\ videoRender' = "render"
        /\ playerError' = FALSE

\* new WebcodecPlayer({codec, width, height, videoEl, description}): the
\* constructor builds the renderer, starts createDecoder() and builds the
\* player's scheduler (hw-decoder.ts:24-44). createDecoder() is taken with
\* the construction: processVideoFile reads none of the fields it writes.
ConstructPlayer(codec, desc) ==
    \E support \in Supports, configureThrows \in BOOLEAN :
      LET d == CreateDecoder(codec, support, configureThrows) IN
        /\ player' = <<[codec |-> codec, description |-> desc]>>
        /\ playersConstructed' = playersConstructed + 1
        /\ configResult' = d.result
        /\ speedControl' = "sc"
        /\ decoder' = d.decoder
        /\ decoderProfile' = d.decoderProfile
        /\ videoRender' = "render"
        /\ playerError' = FALSE

KeepPlayer == UNCHANGED <<player, playersConstructed, configResult, playerVars>>

\* Lines 94-125: the source is loaded (File.arrayBuffer, or HEAD and GET), or
\* loading throws and the catch block of line 120 runs.
\* Mutant of LoadedSize: the size known before the read is kept.
LoadedSize_KeepsProbe(probed, byteLength) == probed

\* Lines 102 and 117: after the whole source has been read into memory,
\* fileSize is assigned the byte length of what was read.
LoadedSize(probed, byteLength) == byteLength

\* Line 108: fileSize from the content-length header of the HEAD response;
\* 0 when the header is missing.
ProbedSize(contentLength) == IF contentLength = <<>> THEN 0 ELSE contentLength[1]

\* Lines 94-125, the whole try block and its catch. A File gives its size
\* and is read into memory. A URL is probed with HEAD and, when the size is
\* non-zero and below 200 MB, downloaded with GET; neither response is asked
\* for its status. Whatever throws reaches the catch block of line 120.
LoadSource ==
    /\ pc = "loading"
    /\ IF source.kind = "file"
       THEN \E readOk \in BOOLEAN :
              /\ sizeFirst' = <<source.size>>
              /\ loadFault' = ~readOk
              /\ IF readOk
                 THEN /\ fileData' = <<source.size>>
                      /\ fileSize' = LoadedSize(source.size, source.size)
                      /\ pc' = "opening"
                      /\ UNCHANGED <<error, isLoading, promise>>
                 ELSE /\ fileData' = <<>>
                      /\ fileSize' = source.size
                      /\ pc' = "failed"
                      /\ SetRefs(CatchBlock(Refs, "load"))
       ELSE \E head \in HeadResponses :
              IF head.throws
              THEN /\ UNCHANGED <<fileSize, fileData, sizeFirst>>
                   /\ loadFault' = TRUE
                   /\ pc' = "failed"
                   /\ SetRefs(CatchBlock(Refs, "load"))
              ELSE LET probed == ProbedSize(head.contentLength) IN
                   /\ sizeFirst' = <<probed>>
                   /\ IF probed # 0 /\ probed < MaxMemorySize
                      THEN \E get \in GetResponses :
                             /\ loadFault' = (~head.ok \/ get.throws \/ ~get.ok)
                             /\ IF get.throws
                                THEN /\ fileSize' = probed
                                     /\ fileData' = <<>>
                                     /\ pc' = "failed"
                                     /\ SetRefs(CatchBlock(Refs, "load"))
                                ELSE /\ fileData' = <<get.byteLength>>
                                     /\ fileSize' = LoadedSize(probed, get.byteLength)
                                     /\ pc' = "opening"
                                     /\ UNCHANGED <<error, isLoading, promise>>
                      ELSE /\ loadFault' = ~head.ok
                           /\ fileSize' = probed
                           /\ fileData' = <<>>
                           /\ pc' = "opening"
                           /\ UNCHANGED <<error, isLoading, promise>>
    /\ UNCHANGED <<codecType, videoStreamIndex, hasOnProgress, readResult,
                   contextDestroys, packetDestroys, packetCount, videoPacketCount,
                   keyframeCount, progressCalls, lastProgress, stats, streams,
                   extradata, description, extractCalls, player, playersConstructed,
                   configResult, videoFrameCache, lastPkt, paceVars, exVars, scVars,
                   playerVars, source, readPos, lastFlush, flushCalls, seekCalls,
                   lastSize, fmtVars, kfVars, bdVars, runPhase>>

\* IOError.END, imported from @libmedia/avutil (line 3), which the read
\* callback returns for "no more data". The library is not part of the
\* repository; the value stands for a negative constant that is no byte count.
IOErrorEND == 0 - 1048576

\* Lengths of the buffer the IOReader hands to onFlush.
BufferLengths == {1, 2, 4}

\* What the ranged request of lines 155-159 may do: throw (the request or the
\* reading of its body), or answer with a success or an error status and a
\* body of some length.
RangeResponses ==
    [throws : {TRUE}, ok : {FALSE}, byteLength : {0}]
    \cup [throws : {FALSE}, ok : BOOLEAN, byteLength : {0, 1, 2, 4, 6}]

\* onFlush (lines 127-176) for a buffer of length n and, when a request is
\* made, its response: the value returned and the cursor afterwards.
OnFlushResult(n, resp) ==
    IF readPos >= fileSize
    THEN [ret |-> IOErrorEND, readPos |-> readPos, fetch |-> "none"]
    ELSE IF fileData # <<>>
    THEN LET len == Min(n, fileData[1] - readPos) IN
           IF len <= 0 THEN [ret |-> IOErrorEND, readPos |-> readPos, fetch |-> "none"]
           ELSE [ret |-> len, readPos |-> readPos + len, fetch |-> "none"]
    ELSE IF source.kind = "url"
    THEN LET len == Min(n, fileSize - readPos) IN
           IF len <= 0 THEN [ret |-> IOErrorEND, readPos |-> readPos, fetch |-> "none"]
           ELSE IF resp.throws
           THEN [ret |-> IOErrorEND, readPos |-> readPos, fetch |-> "threw"]
           ELSE IF ~resp.ok
           THEN [ret |-> IOErrorEND, readPos |-> readPos, fetch |-> "errorStatus"]
           ELSE LET actualLen == Min(len, resp.byteLength) IN
                  [ret |-> actualLen, readPos |-> readPos + actualLen, fetch |-> "ok"]
    ELSE [ret |-> IOErrorEND, readPos |-> readPos, fetch |-> "none"]

\* The demultiplexer is at work and may call the callbacks of the IOReader.
Demuxing == pc \in {"opening", "analyzing", "reading"}

\* One call of onFlush by the IOReader.
OnFlush ==
    /\ Demuxing
    /\ flushCalls < MaxReads
    /\ \E n \in BufferLengths, resp \in RangeResponses :
         LET r == OnFlushResult(n, resp) IN
           /\ readPos' = r.readPos
           /\ lastFlush' = <<[ret |-> r.ret, fetch |-> r.fetch, buffer |-> n,
                               before |-> readPos, after |-> r.readPos,
                               size |-> fileSize]>>
    /\ flushCalls' = flushCalls + 1
    /\ UNCHANGED <<source, fileSize, fileData, sizeFirst, loadFault, seekCalls,
                   lastSize, fmtVars, kfVars, bdVars, runPhase, exVars, scVars, playerVars, runVars,
                   pc, codecType, videoStreamIndex, hasOnProgress, readResult,
                   contextDestroys, packetDestroys, packetCount, videoPacketCount,
                   keyframeCount, progressCalls, lastProgress, stats>>

\* One call of onSeek (lines 178-181) by the IOReader, to a position around
\* the start or the end of the source.
OnSeek ==
    /\ Demuxing
    /\ seekCalls < MaxSeeks
    /\ \E pos \in {0, 1, fileSize - 1, fileSize, fileSize + 1} :
         /\ pos >= 0
         /\ readPos' = pos
    /\ seekCalls' = seekCalls + 1
    /\ UNCHANGED <<source, fileSize, fileData, sizeFirst, loadFault, lastFlush,
                   flushCalls, lastSize, fmtVars, kfVars, bdVars, runPhase, exVars, scVars,
                   playerVars, runVars, pc, codecType, videoStreamIndex,
                   hasOnProgress, readResult, contextDestroys, packetDestroys,
                   packetCount, videoPacketCount, keyframeCount, progressCalls,
                   lastProgress, stats>>

\* One call of onSize (lines 183-185) by the IOReader.
OnSize ==
    /\ Demuxing
    /\ lastSize' = <<fileSize>>
    /\ UNCHANGED <<source, fileSize, fileData, readPos, sizeFirst, loadFault,
                   lastFlush, flushCalls, seekCalls, fmtVars, kfVars, bdVars, runPhase, exVars,
                   scVars, playerVars, runVars, pc, codecType, videoStreamIndex,
                   hasOnProgress, readResult, contextDestroys, packetDestroys,
                   packetCount, videoPacketCount, keyframeCount, progressCalls,
                   lastProgress, stats>>

\* Line 188: demux.open returns or throws.
OpenReturns ==
    /\ pc = "opening"
    /\ \E ok \in BOOLEAN :
         IF ok THEN pc' = "analyzing" /\ UNCHANGED <<error, isLoading, promise>>
         ELSE pc' = "failed" /\ SetRefs(CatchBlock(Refs, "open"))
    /\ UNCHANGED <<codecType, videoStreamIndex, hasOnProgress, readResult,
                   contextDestroys, packetDestroys, packetCount, videoPacketCount,
                   keyframeCount, progressCalls, lastProgress, stats, streams,
                   extradata, description, extractCalls, player, playersConstructed,
                   configResult, videoFrameCache, lastPkt, paceVars, exVars, auxVars, scVars,
                   playerVars>>

\* Lines 189-301: demux.analyzeStreams throws, or returns the streams; then
\* the video stream is looked up ("no video stream" is thrown when there is
\* none), the codec is chosen, the description is taken from the extradata,
\* and the player is built unless the description is still missing.
AnalyzeReturns ==
    /\ pc = "analyzing"
    /\ \/ /\ pc' = "failed"
          /\ SetRefs(CatchBlock(Refs, "analyze"))
          /\ KeepPlayer
          /\ UNCHANGED <<streams, videoStreamIndex, codecType, extradata, description>>
       \/ \E ss \in RunStreams, codec \in {"h264", "h265"}, ed \in Extradatas :
            LET vsi == FindVideoStream(ss, 0)
                desc == DescriptionOfExtradata(ed)
            IN /\ streams' = ss
               /\ videoStreamIndex' = vsi
               /\ IF vsi = -1
                  THEN /\ pc' = "failed"
                       /\ SetRefs(CatchBlock(Refs, "noVideo"))
                       /\ KeepPlayer
                       /\ UNCHANGED <<codecType, extradata, description>>
                  ELSE /\ pc' = "reading"
                       /\ codecType' = codec
                       /\ extradata' = ed
                       /\ description' = desc
                       /\ IF codec \in {"h264", "h265"} /\ desc = <<>>
                          THEN KeepPlayer
                          ELSE ConstructPlayer(codec, desc)
                       /\ UNCHANGED <<error, isLoading, promise>>
    /\ UNCHANGED <<hasOnProgress, readResult, contextDestroys, packetDestroys,
                   packetCount, videoPacketCount, keyframeCount, progressCalls,
                   lastProgress, stats, extractCalls, videoFrameCache, lastPkt,
                   paceVars, exVars, auxVars, scVars>>

\* Mutant of NeedsExtraction: the test "!description" is missing.
NeedsExtraction_EveryKeyframe(codec, desc, isKeyframe, pkt) ==
    codec \in {"h264", "h265"} /\ isKeyframe /\ Len(pkt.data) > 0

\* Mutant of NeedsExtraction: only packets flagged by the container are tried,
\* not those the scan classified as keyframes.
NeedsExtraction_FlaggedOnly(codec, desc, isKeyframe, pkt) ==
    codec \in {"h264", "h265"} /\ desc = <<>> /\ pkt.flagKey /\ Len(pkt.data) > 0

\* The test of line 356, made for a video packet: the description is still
\* missing and the packet is a keyframe with payload.
NeedsExtraction(codec, desc, isKeyframe, pkt) ==
    codec \in {"h264", "h265"} /\ desc = <<>> /\ isKeyframe /\ Len(pkt.data) > 0

\* Lines 383-394: a video packet with payload is copied into the cache.
CacheFrame(cache, pkt, isKeyframe, index) ==
    IF Len(pkt.data) > 0
    THEN Append(cache, [data |-> pkt.data, isKeyframe |-> isKeyframe,
                        packetIndex |-> index])
    ELSE cache

\* readAVPacket returned 0: the whole loop body (lines 314-395) runs for the
\* packet: counting, then for a video packet the extraction of the description
\* from a keyframe while there is none, and the copy into the cache.
RunReadPacket ==
    /\ pc = "reading"
    /\ packetCount < MaxRunPackets
    /\ \E pkt \in RunPackets :
         LET isVideoPacket == videoStreamIndex >= 0 /\ pkt.streamIndex = videoStreamIndex
             isKeyframe == IF isVideoPacket THEN IsKeyframe(codecType, pkt)
                           ELSE pkt.flagKey
             extracts == /\ isVideoPacket
                         /\ NeedsExtraction(codecType, description, isKeyframe, pkt)
             extracted == ExtractDescription(codecType, pkt.data)
         IN /\ SetCounters(CountPacket(Counters, pkt, codecType, videoStreamIndex,
                                       hasOnProgress))
            /\ description' = IF extracts THEN extracted ELSE description
            /\ extractCalls' = IF extracts THEN extractCalls + 1 ELSE extractCalls
            /\ IF extracts /\ extracted # <<>> /\ player = <<>>
               THEN ConstructPlayer(codecType, extracted)
               ELSE KeepPlayer
            /\ videoFrameCache' = IF isVideoPacket
                                  THEN CacheFrame(videoFrameCache, pkt, isKeyframe,
                                                  videoPacketCount + 1)
                                  ELSE videoFrameCache
            /\ lastPkt' = <<pkt>>
    /\ readResult' = "ok"
    /\ UNCHANGED <<pc, codecType, videoStreamIndex, hasOnProgress, contextDestroys,
                   packetDestroys, stats, error, isLoading, promise, streams,
                   extradata, paceVars, exVars, auxVars, scVars>>

\* Lines 408-427: the cached frames are tried in order; each keyframe is handed
\* to the extraction and its result assigned to the description; the scan
\* stops at the first frame that yields one.
RECURSIVE FallbackScan(_, _, _, _)
FallbackScan(cache, codec, desc, calls) ==
    IF cache = <<>> THEN [description |-> desc, calls |-> calls, found |-> FALSE]
    ELSE IF ~Head(cache).isKeyframe THEN FallbackScan(Tail(cache), codec, desc, calls)
    ELSE LET d == ExtractDescription(codec, Head(cache).data) IN
         IF d # <<>> THEN [description |-> d, calls |-> calls + 1, found |-> TRUE]
         ELSE FallbackScan(Tail(cache), codec, d, calls + 1)

\* new SpeedControl(consumer) (speed-control.ts:2-46): the constructor
\* registers the first frame callback.
NewSpeedControl ==
    [queue |-> <<>>, preTime |-> 0, firstFrameTime |-> 0, reqId |-> RafHandle,
     paused |-> FALSE, onFrame |-> "fn", rafPending |-> TRUE, delivered |-> <<>>,
     thrown |-> FALSE]

\* Lines 496-500: the cached frames k..n are enqueued, in cache order, at
\* clock value t. A frame is named by its position in the cache.
RECURSIVE AddAll(_, _, _, _)
AddAll(s, k, n, t) ==
    IF k > n THEN s ELSE AddAll(AddEncodeVideoChunk(s, k, t), k + 1, n, t)

\* Mutant of WatchdogDelay: the timeout is ten times the expected duration.
WatchdogDelay_TenTimes(n) == n * FrameDuration * 10 + 5000

\* Lines 504 and 521-524: the delay of the timeout, in milliseconds, for n
\* cached frames: twice the expected duration (40 ms a frame) plus 5 s.
WatchdogDelay(n) == n * FrameDuration * 2 + 5000

\* Mutant of LoopLeft: the lines after the loop may run while it still reads.
LoopLeft_Early == pc \in {"reading", "read"}

\* The ingestion loop (lines 304-396) has been left through its break: the
\* lines after it run only then.
LoopLeft == pc = "read"

\* Lines 398-508, which run without suspension once the loop is left: the
\* player is built if there is none yet (from a cached keyframe, else without
\* description), the statistics are computed and published, isLoading is
\* cleared, the scheduler is built and every cached frame enqueued; then the
\* function awaits the completion promise.
AfterLoop ==
    /\ LoopLeft
    /\ LET fb == IF codecType \in {"h264", "h265"} /\ player = <<>>
                 THEN FallbackScan(videoFrameCache, codecType, description, extractCalls)
                 ELSE [description |-> description, calls |-> extractCalls,
                       found |-> FALSE]
       IN /\ description' = fb.description
          /\ extractCalls' = fb.calls
          /\ IF codecType \in {"h264", "h265"} /\ player = <<>>
             THEN ConstructPlayer(codecType, fb.description)
             ELSE KeepPlayer
    /\ stats' = <<DemuxStats(Counters)>>
    /\ lastPkt' = <<>>
    /\ IF player' = <<>>
       THEN /\ pc' = "failed"
            /\ SetRefs(CatchBlock([Refs EXCEPT !.isLoading = FALSE], "noPlayer"))
            /\ UNCHANGED <<scVars, paceVars>>
       ELSE /\ pc' = "pacing"
            /\ isLoading' = FALSE
            /\ UNCHANGED <<error, promise>>
            /\ paceStart' = now
            /\ intervalAt' = now + CheckPeriod
            /\ watchdogAt' = now + WatchdogDelay(Len(videoFrameCache))
            /\ decodeThrows' \in {{}, 1..Min(1, Len(videoFrameCache))}
            /\ SetSC(AddAll(NewSpeedControl, 1, Len(videoFrameCache), now))
            /\ enqueued' = Len(videoFrameCache)
            /\ lastOp' = "add"
            /\ UNCHANGED <<now, errorLogged, lastBranch, lastEmitted, onTimeTicks,
                           destroyCalls, playerDestroyCalls>>
    /\ UNCHANGED <<codecType, videoStreamIndex, hasOnProgress, readResult,
                   contextDestroys, packetDestroys, packetCount, videoPacketCount,
                   keyframeCount, progressCalls, lastProgress, streams, extradata,
                   videoFrameCache, exVars, auxVars>>

\* A frame callback of the scheduler of the pacing phase, run before the
\* timers that are due later. Its consumer (lines 479-492) catches what
\* player.decode throws and returns normally.
RunTick ==
    /\ pc = "pacing"
    /\ Tick(ProgramConsumer)
    /\ now' <= MaxPaceTime
    /\ now' <= intervalAt
    /\ now' <= watchdogAt

\* Mutant of decodedFrameCount: the counter is incremented before the decode
\* call, so a call that throws is counted too.
decodedFrameCount_CountsAttempts == Len(delivered)

\* decodedFrameCount (lines 482-491): one per consumer invocation whose decode
\* call returned; an invocation whose decode call threw is logged, not counted.
decodedFrameCount ==
    Cardinality({i \in 1..Len(delivered) : delivered[i] \notin decodeThrows})

\* Lines 527-535, reached when the completion promise resolves: the scheduler
\* and the player are destroyed and the statistics returned. An exception of
\* player.destroy() reaches the catch block of line 536. The player's own
\* scheduler is not part of the state here.
Finish ==
    /\ SetSC(Destroy(SC))
    /\ destroyCalls' = OneMore(destroyCalls)
    /\ playerDestroyCalls' = OneMore(playerDestroyCalls)
    /\ lastOp' = "destroy"
    /\ LET p == WebcodecPlayerDestroy(Player) IN
         /\ speedControl' = p.speedControl
         /\ decoder' = p.decoder
         /\ decoderProfile' = p.decoderProfile
         /\ videoRender' = p.videoRender
         /\ playerError' = p.error
         /\ IF p.error
            THEN pc' = "failed" /\ SetRefs(CatchBlock(Refs, "destroy"))
            ELSE /\ pc' = "returned"
                 /\ promise' = "resolved"
                 /\ UNCHANGED <<error, isLoading>>
    /\ UNCHANGED <<enqueued, errorLogged, lastBranch, lastEmitted, onTimeTicks,
                   codecType, videoStreamIndex, hasOnProgress, readResult,
                   contextDestroys, packetDestroys, packetCount, videoPacketCount,
                   keyframeCount, progressCalls, lastProgress, stats, streams,
                   extradata, description, extractCalls, player, playersConstructed,
                   configResult, videoFrameCache, lastPkt, paceVars, exVars, auxVars>>

\* Lines 509-518: the interval callback, run every CheckPeriod milliseconds
\* until the wait ends. When it finds the queue empty and every cached frame
\* decoded it resolves the completion promise and the function goes on to its
\* last lines; otherwise it only logs. The host may leave frame callbacks
\* uncalled for as long as it likes; timers run when they are due, the
\* interval before the timeout when both are due together.
IntervalCheck ==
    /\ pc = "pacing"
    /\ intervalAt <= watchdogAt
    /\ now' = intervalAt
    /\ IF getQueueSize = 0 /\ decodedFrameCount >= Len(videoFrameCache)
       THEN Finish
       ELSE /\ intervalAt' = intervalAt + CheckPeriod
            /\ UNCHANGED <<encodeVideoChunkQueue, preTime, firstFrameTime, reqId,
                           paused, onFrame, rafPending, delivered, enqueued,
                           errorLogged, lastBranch, lastEmitted, onTimeTicks,
                           destroyCalls, playerDestroyCalls, lastOp, playerVars,
                           pc, codecType, videoStreamIndex, hasOnProgress,
                           readResult, contextDestroys, packetDestroys, packetCount,
                           videoPacketCount, keyframeCount, progressCalls,
                           lastProgress, stats, isLoading, error, promise, streams,
                           extradata, description, extractCalls, player,
                           playersConstructed, configResult, videoFrameCache,
                           lastPkt, paceStart, watchdogAt, decodeThrows, exVars, auxVars>>

\* Lines 521-524: the timeout resolves the completion promise, whatever the
\* queue holds, and the function goes on to its last lines.
Watchdog ==
    /\ pc = "pacing"
    /\ watchdogAt < intervalAt
    /\ now' = watchdogAt
    /\ Finish

----------------------------------------------------------------------------
\* Initial states

SCInit ==
    /\ encodeVideoChunkQueue = <<>>
    /\ preTime = 0
    /\ firstFrameTime = 0
    /\ reqId = RafHandle
    /\ paused = FALSE
    /\ onFrame = "fn"
    /\ rafPending = TRUE
    /\ now = 1
    /\ delivered = <<>>
    /\ enqueued = 0
    /\ errorLogged = FALSE
    /\ lastBranch = "idle"
    /\ lastEmitted = 0
    /\ onTimeTicks = 0
    /\ destroyCalls = 0
    /\ playerDestroyCalls = 0
    /\ lastOp = "new"

PlayerInit ==
    /\ speedControl = "sc"
    /\ decoder \in {"null", "open"}
    /\ decoderProfile = "set"
    /\ videoRender = "render"
    /\ playerError = FALSE

IngestIdle ==
    /\ pc = "idle"
    /\ codecType = "h264"
    /\ videoStreamIndex = 0
    /\ hasOnProgress = FALSE
    /\ readResult = "ok"
    /\ contextDestroys = 0
    /\ packetDestroys = 0
    /\ packetCount = 0
    /\ videoPacketCount = 0
    /\ keyframeCount = 0
    /\ progressCalls = 0
    /\ lastProgress = <<>>
    /\ stats = <<>>

\* Ingestion starts after stream analysis chose the video stream and the codec.
IngestInit ==
    /\ pc = "reading"
    /\ codecType \in {"h264", "h265"}
    /\ videoStreamIndex = 0
    /\ hasOnProgress \in BOOLEAN
    /\ readResult = "ok"
    /\ contextDestroys = 0
    /\ packetDestroys = 0
    /\ packetCount = 0
    /\ videoPacketCount = 0
    /\ keyframeCount = 0
    /\ progressCalls = 0
    /\ lastProgress = <<>>
    /\ stats = <<>>

\* No player has been constructed yet.
PlayerNone ==
    /\ speedControl = "null"
    /\ decoder = "null"
    /\ decoderProfile = "null"
    /\ videoRender = "null"
    /\ playerError = FALSE

\* processVideoFile is not running.
RunIdle ==
    /\ isLoading = FALSE
    /\ error = "null"
    /\ promise = "pending"
    /\ streams = <<>>
    /\ extradata = <<>>
    /\ description = <<>>
    /\ extractCalls = 0
    /\ player = <<>>
    /\ playersConstructed = 0
    /\ configResult = "none"
    /\ videoFrameCache = <<>>
    /\ lastPkt = <<>>
    /\ paceStart = 0
    /\ intervalAt = 0
    /\ watchdogAt = 0
    /\ decodeThrows = {}

\* No source is being read; selectFormat and the keyframe test are not
\* under test.
SrcIdle(src) ==
    /\ source = src
    /\ fileSize = 0
    /\ fileData = <<>>
    /\ readPos = 0
    /\ sizeFirst = <<>>
    /\ loadFault = FALSE
    /\ lastFlush = <<>>
    /\ flushCalls = 0
    /\ seekCalls = 0
    /\ lastSize = <<>>

FmtIdle ==
    /\ fmtSource = [kind |-> "file", absolute |-> FALSE, ext |-> <<>>, tail |-> <<>>]
    /\ fmtResult = <<>>

\* selectFormat is about to be applied to a source.
FmtInit ==
    /\ fmtSource \in FormatSources
    /\ fmtResult = <<>>

KfIdle ==
    /\ kfInput = <<>>
    /\ kfResult = <<>>

\* The keyframe test is about to be applied to a payload.
KfInit ==
    /\ kfInput \in {<<in>> : in \in ScanInputs}
    /\ kfResult = <<>>

\* No description is being built on its own.
BdIdle ==
    /\ bdLengths = <<>>
    /\ bdResult = <<>>

\* Two invocations of processVideoFile on one useVideoDemuxDecoder(): stats,
\* isLoading and error are the refs of the instance (lines 71-73), shared by
\* every invocation; each invocation is followed through the points where it
\* writes them. Nothing in processVideoFile or in handleFileChange
\* (App.vue:278-301) keeps a second invocation from starting while the first
\* is suspended at one of its awaits.

\* What the steps below leave alone.
OverlapFrame ==
    UNCHANGED <<scVars, playerVars, pc, codecType, videoStreamIndex, hasOnProgress,
                readResult, contextDestroys, packetDestroys, packetCount,
                videoPacketCount, keyframeCount, progressCalls, lastProgress,
                promise, streams, extradata, description, extractCalls, player,
                playersConstructed, configResult, videoFrameCache, lastPkt,
                paceVars, exVars, srcVars, fmtVars, kfVars, bdVars>>

\* Lines 76-77: invocation r starts; isLoading.value = true, error.value = null.
Invoke(r) ==
    /\ runPhase[r] = "idle"
    /\ runPhase' = [runPhase EXCEPT ![r] = "loading"]
    /\ isLoading' = TRUE
    /\ error' = "null"
    /\ UNCHANGED stats
    /\ OverlapFrame

\* Lines 94-125: the source of invocation r is loaded, or loading throws and
\* the catch block stores the error and clears isLoading.
LoadEnds(r) ==
    /\ runPhase[r] = "loading"
    /\ \/ /\ runPhase' = [runPhase EXCEPT ![r] = "ingesting"]
          /\ UNCHANGED <<isLoading, error>>
       \/ /\ runPhase' = [runPhase EXCEPT ![r] = "failed"]
          /\ error' = "load"
          /\ isLoading' = FALSE
    /\ UNCHANGED stats
    /\ OverlapFrame

\* Lines 187-458: open, analysis and the packet loop of invocation r end; the
\* statistics are stored and isLoading is cleared (455-458), or an exception
\* reaches the catch block of lines 536-541.
IngestionEnds(r) ==
    /\ runPhase[r] = "ingesting"
    /\ \/ /\ runPhase' = [runPhase EXCEPT ![r] = "pacing"]
          /\ stats' = <<DemuxStats(Counters)>>
          /\ isLoading' = FALSE
          /\ UNCHANGED error
       \/ /\ runPhase' = [runPhase EXCEPT ![r] = "failed"]
          /\ error' \in {"open", "analyze", "noVideo"}
          /\ isLoading' = FALSE
          /\ UNCHANGED stats
    /\ OverlapFrame

\* Lines 508-541: the wait of invocation r ends and it returns, or
\* player.destroy() throws and the catch block runs.
PacingEnds(r) ==
    /\ runPhase[r] = "pacing"
    /\ \/ /\ runPhase' = [runPhase EXCEPT ![r] = "returned"]
          /\ UNCHANGED <<isLoading, error>>
       \/ /\ runPhase' = [runPhase EXCEPT ![r] = "failed"]
          /\ error' = "destroy"
          /\ isLoading' = FALSE
    /\ UNCHANGED stats
    /\ OverlapFrame

\* handleRemove (App.vue:303-309): the refs are reset; no invocation is told.
HandleRemove ==
    /\ stats' = <<>>
    /\ error' = "null"
    /\ isLoading' = FALSE
    /\ UNCHANGED runPhase
    /\ OverlapFrame

\* processVideoFile has not been invoked a first and a second time.
OverlapIdle == runPhase = <<"idle", "idle">>

AuxIdle ==
    /\ SrcIdle([kind |-> "file", size |-> 3]) /\ FmtIdle /\ KfIdle /\ BdIdle
    /\ OverlapIdle

\* The extraction is not under test.
ExIdle ==
    /\ exCodec = "h264"
    /\ exUnits = <<>>
    /\ exResult = <<>>

\* No scheduler has been constructed yet.
SCNone ==
    /\ encodeVideoChunkQueue = <<>>
    /\ preTime = 0
    /\ firstFrameTime = 0
    /\ reqId = 0
    /\ paused = FALSE
    /\ onFrame = "null"
    /\ rafPending = FALSE
    /\ now = 1
    /\ delivered = <<>>
    /\ enqueued = 0
    /\ errorLogged = FALSE
    /\ lastBranch = "idle"
    /\ lastEmitted = 0
    /\ onTimeTicks = 0
    /\ destroyCalls = 0
    /\ playerDestroyCalls = 0
    /\ lastOp = "new"

\* processVideoFile has run lines 76-92 and awaits the source: isLoading is
\* set, error cleared, the context and the packet exist, nothing is counted.
RunInit ==
    /\ pc = "loading"
    /\ codecType = "h264"
    /\ videoStreamIndex = -1
    /\ hasOnProgress = FALSE
    /\ readResult = "none"
    /\ contextDestroys = 0
    /\ packetDestroys = 0
    /\ packetCount = 0
    /\ videoPacketCount = 0
    /\ keyframeCount = 0
    /\ progressCalls = 0
    /\ lastProgress = <<>>
    /\ stats = <<>>
    /\ isLoading = TRUE
    /\ error = "null"
    /\ promise = "pending"
    /\ streams = <<>>
    /\ extradata = <<>>
    /\ description = <<>>
    /\ extractCalls = 0
    /\ player = <<>>
    /\ playersConstructed = 0
    /\ configResult = "none"
    /\ videoFrameCache = <<>>
    /\ lastPkt = <<>>
    /\ paceStart = 0
    /\ intervalAt = 0
    /\ watchdogAt = 0
    /\ decodeThrows = {}

\* A payload made of one to MaxUnits units is about to be handed to the
\* extraction of either family.
ExInit ==
    /\ exCodec \in {"h264", "h265"}
    /\ exUnits \in UnitLists
    /\ exResult = <<>>

Init == SCInit /\ PlayerInit /\ IngestIdle /\ RunIdle /\ ExIdle /\ AuxIdle

Next ==
    \/ Tick(ProgramConsumer)
    \/ Add
    \/ SetPausedState
    \/ DestroyCall
    \/ PlayerDestroyCall

\* The scheduler driven through its public methods, with the consumers the
\* repository installs: both return normally (hw-decoder.ts:48-50,
\* useVideoDemuxDecoder.ts:479-492).
Spec == Init /\ [][Next]_vars

NextAny ==
    \/ Tick(AnyConsumer)
    \/ Add
    \/ SetPausedState
    \/ DestroyCall
    \/ PlayerDestroyCall

\* The scheduler with the host's promise about frame callbacks: a registered
\* callback (speed-control.ts:39, 43) is eventually run.
SpecTicks == Spec /\ WF_vars(Tick(ProgramConsumer))

\* The constructor of WebcodecPlayer has returned (hw-decoder.ts:24-44) for a
\* codec that has a codec string: the renderer and the scheduler are built,
\* createDecoder() has set decoderProfile and waits for the support check.
InitDecoder ==
    /\ SCInit /\ IngestIdle /\ ExIdle /\ AuxIdle
    /\ speedControl = "sc"
    /\ decoder = "null"
    /\ decoderProfile = "set"
    /\ videoRender = "render"
    /\ playerError = FALSE
    /\ configResult = "awaiting"
    /\ isLoading = FALSE
    /\ error = "null"
    /\ promise = "pending"
    /\ streams = <<>>
    /\ extradata = <<>>
    /\ description = <<>>
    /\ extractCalls = 0
    /\ player = <<>>
    /\ playersConstructed = 0
    /\ videoFrameCache = <<>>
    /\ lastPkt = <<>>
    /\ paceStart = 0
    /\ intervalAt = 0
    /\ watchdogAt = 0
    /\ decodeThrows = {}

NextDecoder ==
    \/ CreateDecoderResumes
    \/ PlayerDestroyCall
    \/ Add
    \/ SetPausedState
    \/ DestroyCall

\* A player from the return of its constructor on: the continuation of
\* createDecoder() and the calls of its owner in any order.
SpecDecoder == InitDecoder /\ [][NextDecoder]_vars

InitOverlap ==
    /\ SCNone /\ PlayerNone /\ IngestIdle /\ RunIdle /\ ExIdle /\ AuxIdle

NextOverlap ==
    \/ \E r \in 1..2 : Invoke(r)
    \/ \E r \in 1..2 : LoadEnds(r)
    \/ \E r \in 1..2 : IngestionEnds(r)
    \/ \E r \in 1..2 : PacingEnds(r)
    \/ HandleRemove

\* One useVideoDemuxDecoder() whose processVideoFile is invoked twice, the
\* second time at any moment of the first.
SpecOverlap == InitOverlap /\ [][NextOverlap]_vars

\* The scheduler with an arbitrary consumer, which may throw or call destroy().
SpecAny == Init /\ [][NextAny]_vars

InitIngest == SCInit /\ PlayerNone /\ IngestInit /\ RunIdle /\ ExIdle /\ AuxIdle

NextIngest ==
    \/ ReadPacket
    \/ ReadEnd
    \/ ReadError
    \/ PublishStats

\* The ingestion loop of processVideoFile, for every packet sequence within the bounds.
SpecIngest == InitIngest /\ [][NextIngest]_vars

InitRun == SCNone /\ PlayerNone /\ RunInit /\ ExIdle /\ AuxIdle

NextRun ==
    \/ LoadSource
    \/ OpenReturns
    \/ AnalyzeReturns
    \/ RunReadPacket
    \/ ReadEnd
    \/ ReadError
    \/ AfterLoop
    \/ RunTick
    \/ IntervalCheck
    \/ Watchdog

\* One call of processVideoFile from its first suspension to its return or
\* its exception, for every source, stream list and packet sequence within
\* the bounds.
SpecRun == InitRun /\ [][NextRun]_vars

\* The same call with the host's timers taken into account: a timer callback
\* that is due is eventually run (setInterval, setTimeout). Frame callbacks
\* carry no such promise.
SpecRunTimers == SpecRun /\ WF_vars(IntervalCheck) /\ WF_vars(Watchdog)

InitSource ==
    /\ SCNone /\ PlayerNone /\ RunInit /\ ExIdle /\ FmtIdle /\ KfIdle /\ BdIdle
    /\ OverlapIdle
    /\ \E src \in Sources : SrcIdle(src)

NextSource ==
    \/ LoadSource
    \/ OnFlush
    \/ OnSeek
    \/ OnSize

\* The load of the source and the callbacks through which the demultiplexer
\* then reads it, for every source and every answer of the server within the
\* bounds.
SpecSource == InitSource /\ [][NextSource]_vars

InitFormat ==
    /\ SCInit /\ PlayerNone /\ IngestIdle /\ RunIdle /\ ExIdle
    /\ SrcIdle([kind |-> "file", size |-> 3]) /\ KfIdle /\ FmtInit /\ BdIdle
    /\ OverlapIdle

NextFormat == SelectFormatCall

\* selectFormat applied to every source within the bounds.
SpecFormat == InitFormat /\ [][NextFormat]_vars

InitScan ==
    /\ SCInit /\ PlayerNone /\ IngestIdle /\ RunIdle /\ ExIdle
    /\ SrcIdle([kind |-> "file", size |-> 3]) /\ FmtIdle /\ KfInit /\ BdIdle
    /\ OverlapIdle

NextScan == KeyframeTest

\* The keyframe test of the loop applied to every payload within the bounds.
SpecScan == InitScan /\ [][NextScan]_vars

InitExtract == SCInit /\ PlayerNone /\ IngestIdle /\ RunIdle /\ ExInit /\ AuxIdle

NextExtract == ExtractCall

\* extractH264Description / extractH265Description applied to one payload.
SpecExtract == InitExtract /\ [][NextExtract]_vars

\* The description is about to be built from units of given lengths.
BdInit ==
    /\ bdLengths \in LengthLists
    /\ bdResult = <<>>

InitBuild ==
    /\ SCInit /\ PlayerNone /\ IngestIdle /\ RunIdle /\ ExIdle
    /\ SrcIdle([kind |-> "file", size |-> 3]) /\ FmtIdle /\ KfIdle /\ BdInit
    /\ OverlapIdle

NextBuild == BuildCall

\* The description built from one or two units.
SpecBuild == InitBuild /\ [][NextBuild]_vars

\* The extraction is about to be applied to a payload whose units may be a
\* single byte long.
ExInitFull ==
    /\ exCodec \in {"h264", "h265"}
    /\ exUnits \in FullUnitLists
    /\ exResult = <<>>

InitExtractFull == SCInit /\ PlayerNone /\ IngestIdle /\ RunIdle /\ ExInitFull /\ AuxIdle

\* extractH264Description / extractH265Description applied to one payload of
\* units of any length.
SpecExtractFull == InitExtractFull /\ [][NextExtract]_vars

----------------------------------------------------------------------------
\* Properties of the pacing scheduler

\* The fields of the scheduler that a tick may write, besides the handle.
tickFields == <<encodeVideoChunkQueue, preTime, firstFrameTime, paused, onFrame, delivered>>

\* C2: a tick of a running, unpaused scheduler that observes
\* elapsed >= 1.5 x frameInterval with at least two chunks queued hands the
\* first two queued chunks to the consumer, in queue order, in that tick, and
\* sets the baseline to the tick time.
C2_CatchUpEmitsTwoAndResets ==
    [][(/\ lastOp' = "tick"
        /\ Branch(now') = "catchup"
        /\ ~paused
        /\ Len(encodeVideoChunkQueue) >= 2)
       => (/\ delivered' = delivered \o SubSeq(encodeVideoChunkQueue, 1, 2)
           /\ encodeVideoChunkQueue'
                = SubSeq(encodeVideoChunkQueue, 3, Len(encodeVideoChunkQueue))
           /\ preTime' = now'
           /\ preTime' # preTime + frameInterval)]_vars

C2_Witness ==
    /\ lastOp = "tick"
    /\ lastBranch = "catchup"
    /\ lastEmitted = 2
    /\ delivered = <<1, 2>>
    /\ encodeVideoChunkQueue = <<3>>
    /\ preTime = now

\* C3: with a target interval of 40 ms, a tick of a running, unpaused scheduler
\* with at least two chunks queued emits 0 chunks when elapsed < 40, 1 chunk
\* when 40 <= elapsed < 60, and 2 chunks when elapsed >= 60.
C3_FortyMsThresholds ==
    [][(/\ lastOp' = "tick"
        /\ firstFrameTime # 0
        /\ ~paused
        /\ Len(encodeVideoChunkQueue) >= 2)
       => LET elapsed == now' - preTime IN
          lastEmitted' = (IF elapsed < 40 THEN 0 ELSE IF elapsed < 60 THEN 1 ELSE 2)]_vars

\* C4: as long as every tick since the first enqueue that moved the baseline
\* took the on-time branch, baseline = firstFrameTime + N x frameInterval,
\* N the number of those ticks, whatever the tick times were.
C4_NoDriftOnTime ==
    (firstFrameTime # 0 /\ onTimeTicks >= 0)
        => preTime = firstFrameTime + onTimeTicks * frameInterval

\* Two on-time ticks, the second of them late by a few ms.
C4_Witness ==
    /\ lastOp = "tick"
    /\ lastBranch = "ontime"
    /\ onTimeTicks >= 2
    /\ now > preTime
    /\ preTime = firstFrameTime + 2 * frameInterval

\* C5: once destroy() has returned, no tick runs and the consumer is not
\* invoked again, and the destroy() call leaves the queue empty, also when
\* destroy() was called by the consumer during a tick.
C5_DestroyStopsTicks ==
    [][/\ onFrame = "null" => (lastOp' # "tick" /\ delivered' = delivered)
       /\ (onFrame # "null" /\ onFrame' = "null") => encodeVideoChunkQueue' = <<>>]_vars

\* C6: once destroyed, the queue stays empty and no frame callback is
\* registered, whatever is called afterwards.
C6_DestroyedIsTerminal ==
    onFrame = "null" => (getQueueSize = 0 /\ ~rafPending)

C8_PausedOnlySuppressesEmit ==
    [][lastOp' = "tick"
       => (/\ paused => (/\ delivered' = delivered
                         /\ encodeVideoChunkQueue' = encodeVideoChunkQueue
                         /\ lastEmitted' = 0)
           /\ preTime' = ReqFrame([SC EXCEPT !.paused = ~paused], now',
                                  "return", "return").preTime)]_vars

C8_Witness ==
    /\ lastOp = "tick"
    /\ paused
    /\ lastBranch \in {"ontime", "catchup"}
    /\ encodeVideoChunkQueue # <<>>
    /\ preTime > firstFrameTime

\* C9: an unpaused tick whose branch emits k chunks, with q chunks queued,
\* invokes the consumer min(k, q) times, raises no error, shortens the queue by
\* min(k, q), and updates the baseline as the branch prescribes.
C9_EmitOnShortQueue ==
    [][(lastOp' = "tick" /\ ~paused)
       => LET k == CASE Branch(now') = "catchup" -> 2
                     [] Branch(now') = "ontime" -> 1
                     [] OTHER -> 0
              q == Len(encodeVideoChunkQueue)
          IN /\ lastEmitted' = Min(k, q)
             /\ Len(delivered') = Len(delivered) + Min(k, q)
             /\ Len(encodeVideoChunkQueue') = q - Min(k, q)
             /\ ~errorLogged'
             /\ preTime' = CASE Branch(now') = "catchup" -> now'
                             [] Branch(now') = "ontime" -> preTime + frameInterval
                             [] OTHER -> preTime]_vars

\* A catch-up tick found one chunk; a later emitting tick found none.
C9_Witness ==
    /\ lastOp = "tick"
    /\ ~paused
    /\ lastBranch \in {"ontime", "catchup"}
    /\ lastEmitted = 0
    /\ encodeVideoChunkQueue = <<>>
    /\ delivered = <<1>>
    /\ onFrame = "fn"

\* C10: a tick of an idle scheduler changes nothing; the first
\* addEncodeVideoChunk records baseline = firstFrameTime = now and makes the
\* scheduler running; a later addEncodeVideoChunk leaves the baseline alone.
C10_IdleUntilFirstEnqueue ==
    [][/\ (lastOp' = "tick" /\ firstFrameTime = 0)
            => (UNCHANGED tickFields /\ lastEmitted' = 0)
       /\ (lastOp' = "add" /\ firstFrameTime = 0)
            => (firstFrameTime' = now /\ preTime' = now /\ firstFrameTime' # 0)
       /\ (lastOp' = "add" /\ firstFrameTime # 0)
            => UNCHANGED <<preTime, firstFrameTime>>]_vars

\* Idle ticks ran before the first enqueue, and a second enqueue came later
\* than the first.
C10_Witness ==
    /\ lastOp = "add"
    /\ enqueued >= 2
    /\ firstFrameTime > 1
    /\ now > firstFrameTime
    /\ preTime < now

----------------------------------------------------------------------------
\* Properties of the ingestion loop

\* C1: at every step of the ingestion loop totalPackets >= videoPackets >=
\* keyframes >= 0, for the loop's counters, for the counters handed to
\* onProgress, and for the final Stats.
C1_CounterOrder ==
    /\ packetCount >= videoPacketCount
    /\ videoPacketCount >= keyframeCount
    /\ keyframeCount >= 0
    /\ lastProgress # <<>>
         => (/\ lastProgress[1].totalPackets >= lastProgress[1].videoPackets
             /\ lastProgress[1].videoPackets >= lastProgress[1].keyframes
             /\ lastProgress[1].keyframes >= 0)
    /\ stats # <<>>
         => (/\ stats[1].totalPackets >= stats[1].videoPackets
             /\ stats[1].videoPackets >= stats[1].keyframes
             /\ stats[1].keyframes >= 0
             /\ stats[1].totalPackets = packetCount
             /\ stats[1].videoPackets = videoPacketCount
             /\ stats[1].keyframes = keyframeCount)

\* A run with packets of another stream, keyframes and plain frames, a
\* progress report, and the final Stats.
C1_Witness ==
    /\ pc = "done"
    /\ stats # <<>>
    /\ lastProgress # <<>>
    /\ packetCount > videoPacketCount
    /\ videoPacketCount > keyframeCount
    /\ keyframeCount > 0

----------------------------------------------------------------------------
\* Properties of a whole run of processVideoFile

\* The run is past stream analysis, which returned the streams.
analysed ==
    /\ pc \notin {"loading", "opening", "analyzing"}
    /\ error \notin {"load", "open", "analyze"}

\* C11: when readAVPacket has returned a status that is neither 0 nor END,
\* the run is aborted: once the loop is left the promise is rejected with the
\* error stored, no Stats are published and the pacing phase is not started.
C11_ReadErrorIsFatal ==
    (readResult = "error" /\ pc # "read")
        => (/\ promise = "rejected"
            /\ error # "null"
            /\ stats = <<>>
            /\ pc \notin {"pacing", "returned"}
            /\ enqueued = 0)

\* Ingestion has ended on one of the paths of C12: the loop was left (on END
\* or on another status), or open / analyzeStreams threw, or no video stream
\* was found.
ingestionEnded ==
    \/ pc \in {"pacing", "returned"}
    \/ (pc = "failed" /\ error \in {"open", "analyze", "noVideo", "noPlayer", "destroy"})

\* C12: on every terminal path of ingestion - end of stream, another read
\* error, no video stream, an exception of demux.open or analyzeStreams -
\* iformatContext.destroy and destroyAVPacket have each been called, and
\* neither is ever called more than once.
C12_ReleasedOnEveryTerminalPath ==
    /\ contextDestroys <= 1
    /\ packetDestroys <= 1
    /\ ingestionEnded => (contextDestroys = 1 /\ packetDestroys = 1)

\* C13: when stream analysis returned no stream of the video type, the
\* promise is rejected with the no-video-stream error, the error is stored and
\* isLoading is false, and no WebcodecPlayer was constructed, no decoder
\* configured and no packet read.
C13_NoVideoStreamRejectsFirst ==
    (analysed /\ FindVideoStream(streams, 0) = -1)
        => (/\ pc = "failed"
            /\ promise = "rejected"
            /\ error = "noVideo"
            /\ ~isLoading
            /\ player = <<>>
            /\ playersConstructed = 0
            /\ configResult = "none"
            /\ decoder = "null"
            /\ readResult = "none"
            /\ packetCount = 0
            /\ stats = <<>>)

\* Analysis found an audio stream only, and the run was rejected.
C13_Witness ==
    /\ streams = <<"audio">>
    /\ error = "noVideo"
    /\ promise = "rejected"

\* C14: when the decoder could not be configured (isConfigSupported answered
\* unsupported, the codec has no codec string, or configure() threw), the run
\* does not go on to the pacing phase and its promise is not resolved.
C14_UnconfigurableDecoderRejects ==
    configResult \in {"unsupported", "noCodecString", "configureThrew"}
        => (pc \notin {"pacing", "returned"} /\ promise # "resolved")

\* C15: a packet of the video stream is counted as a keyframe exactly when
\* its container keyframe flag is set or the scan of its payload reports a
\* keyframe; a packet of another stream changes neither videoPackets nor
\* keyframes, whatever its flag; and the frame cached for a video packet
\* carries that same flag-or-scan value.
C15_KeyframeIsFlagOrScan ==
    [][packetCount' = packetCount + 1 =>
         LET pkt == lastPkt'[1]
             flagOrScan == pkt.flagKey \/ detectKeyframe(codecType, pkt.data)
         IN IF pkt.streamIndex = videoStreamIndex
            THEN /\ videoPacketCount' = videoPacketCount + 1
                 /\ keyframeCount' = keyframeCount + (IF flagOrScan THEN 1 ELSE 0)
                 /\ Len(pkt.data) > 0 =>
                      /\ Len(videoFrameCache') = Len(videoFrameCache) + 1
                      /\ videoFrameCache'[Len(videoFrameCache')].data = pkt.data
                      /\ videoFrameCache'[Len(videoFrameCache')].isKeyframe = flagOrScan
            ELSE /\ videoPacketCount' = videoPacketCount
                 /\ keyframeCount' = keyframeCount
                 /\ videoFrameCache' = videoFrameCache]_vars

\* A video packet without the container flag was found to be a keyframe by
\* the scan, counted and cached as one; the other packet read belongs to
\* another stream and was not counted.
C15_Witness ==
    /\ lastPkt # <<>>
    /\ lastPkt[1].streamIndex = videoStreamIndex
    /\ ~lastPkt[1].flagKey
    /\ packetCount = 2
    /\ videoPacketCount = 1
    /\ keyframeCount = 1
    /\ Len(videoFrameCache) = 1
    /\ videoFrameCache[1].isKeyframe

\* C16: the final Stats have keyframeRatio = keyframes / videoPackets x 100
\* when videoPackets > 0 and 0 otherwise, hence 0 <= keyframeRatio <= 100; and
\* 1000 packets with 400 video packets and 40 keyframes give 10.
C16_KeyframeRatio ==
    /\ stats # <<>> =>
         LET s == stats[1]
             r == stats[1].keyframeRatio
         IN /\ r.den > 0
            /\ s.videoPackets > 0 => r.num * s.videoPackets = s.keyframes * 100 * r.den
            /\ s.videoPackets = 0 => r.num = 0
            /\ 0 <= r.num
            /\ r.num <= 100 * r.den
    /\ LET r == DemuxStats([packetCount |-> 1000, videoPacketCount |-> 400,
                            keyframeCount |-> 40, progressCalls |-> 0,
                            lastProgress |-> <<>>]).keyframeRatio
       IN r.num = 10 * r.den

\* Final Stats of a run with packets of another stream, and with some but
\* not all video packets keyframes.
C16_Witness ==
    /\ stats # <<>>
    /\ stats[1].totalPackets > stats[1].videoPackets
    /\ stats[1].videoPackets > stats[1].keyframes
    /\ stats[1].keyframes > 0
    /\ stats[1].keyframeRatio.num > 0

C18_DescriptionProducedOnce ==
    [][/\ description # <<>> =>
            (description' = description /\ extractCalls' = extractCalls)
       /\ (description' # <<>> /\ player' # <<>>) =>
            player'[1].description = description']_vars

\* The description was extracted from the first keyframe by the only
\* extraction call of the run, and a second keyframe with parameter sets was
\* read afterwards.
C18_Witness ==
    /\ extradata = <<>>
    /\ description # <<>>
    /\ extractCalls = 1
    /\ pc = "returned"
    /\ Len(videoFrameCache) >= 2
    /\ videoFrameCache[1].isKeyframe
    /\ videoFrameCache[2].isKeyframe
    /\ ExtractDescription(codecType, videoFrameCache[2].data) # <<>>

\* C20: while the pacing phase is running - the Stats are final and chunks
\* are being paced - the promise returned by processVideoFile is already
\* resolved.
C20_ResolvedBeforePacingEnds ==
    pc = "pacing" => promise = "resolved"

----------------------------------------------------------------------------
\* Properties of the description extraction

\* Whether a unit is a parameter set of the family: types 7 and 8 of h264,
\* types 32 to 34 of h265.
IsParameterSet(codec, body) ==
    IF codec = "h264" THEN (body[1] % 32) \in {7, 8}
    ELSE ((body[1] \div 2) % 64) \in {32, 33, 34}

\* The parameter-set units of us, in order, each behind its length as two
\* big-endian bytes, with nothing in between.
RECURSIVE LengthPrefixed(_, _)
LengthPrefixed(codec, us) ==
    IF us = <<>> THEN <<>>
    ELSE LET body == Head(us).body
             entry == IF IsParameterSet(codec, body)
                      THEN <<Len(body) \div 256, Len(body) % 256>> \o body
                      ELSE <<>>
         IN entry \o LengthPrefixed(codec, Tail(us))

\* C19: for a payload made of start-code-delimited NAL units, the extraction
\* returns the parameter-set units of the family and no other unit, in
\* encounter order and without separators, each as its bytes without the start
\* code behind a 2-byte big-endian length (and nothing when there is no such
\* unit); for the units of types 7, 8, 5 it returns two entries, the type-7
\* unit and then the type-8 unit.
C19_ExtractionIsLengthPrefixedParameterSets ==
    /\ exResult # <<>> =>
         LET expected == LengthPrefixed(exCodec, exUnits)
         IN exResult[1] = IF expected = <<>> THEN <<>> ELSE <<expected>>
    /\ ExtractDescription("h264", <<0, 0, 0, 1, 103, 66, 0, 0, 1, 104, 206, 60,
                                    0, 0, 1, 101, 136>>)
         = << <<0, 2, 103, 66, 0, 3, 104, 206, 60>> >>

\* The extraction was applied to an h264 payload of a type-7, a type-8 and a
\* type-5 unit and returned a description.
C19_Witness ==
    /\ exCodec = "h264"
    /\ Len(exUnits) = 3
    /\ exUnits[1].body[1] % 32 = 7
    /\ exUnits[2].body[1] % 32 = 8
    /\ exUnits[3].body[1] % 32 = 5
    /\ exResult # <<>>
    /\ exResult[1] # <<>>
    /\ Len(exResult[1][1]) = 4 + Len(exUnits[1].body) + Len(exUnits[2].body)

\* C21: the wait for the end of the pacing phase always terminates: while it
\* lasts the clock is at most 2 x (cached frames) x 40 ms + 5000 ms past its
\* start, whatever the queue holds and even if no frame callback ever runs; it
\* always ends, and when it has ended the scheduler and the player are
\* destroyed and the promise is resolved with the Stats.
C21_WaitEndsWithinWatchdogBound ==
    /\ [](pc \in {"pacing", "returned"}
            => now <= paceStart + 2 * Len(videoFrameCache) * 40 + 5000)
    /\ [](pc = "returned"
            => /\ onFrame = "null" /\ ~rafPending /\ encodeVideoChunkQueue = <<>>
               /\ destroyCalls >= 1 /\ playerDestroyCalls >= 1
               /\ speedControl = "null" /\ decoder = "null"
               /\ promise = "resolved" /\ stats # <<>>)
    /\ (pc = "pacing" ~> pc = "returned")

\* C21 witness: two frames were cached, no frame callback ever ran, and the
\* run returned when the timeout was due.
C21_Witness ==
    /\ pc = "returned"
    /\ Len(videoFrameCache) = 2
    /\ delivered = <<>>
    /\ now = paceStart + 5160

\* C22: the two phases are strictly sequential. Whenever a chunk has been
\* enqueued into the pacing scheduler or handed to the consumer, the ingestion
\* loop has had its last readAVPacket result and the Stats are published; from
\* then on no packet is read and the Stats do not change.
C22_IngestionBeforePacing ==
    [][ /\ (enqueued' > 0 \/ delivered' # <<>>)
            => /\ readResult' \in {"END", "error"}
               /\ stats' # <<>>
               /\ pc' \in {"pacing", "returned", "failed"}
        /\ (enqueued > 0 \/ delivered # <<>> \/ stats # <<>>)
            => /\ UNCHANGED <<readResult, packetCount, videoPacketCount, keyframeCount,
                              videoFrameCache>>
               /\ stats' = stats
      ]_vars

\* C22 witness: two packets were read, the loop ended on END, and the consumer
\* has been handed a chunk.
C22_Witness ==
    /\ pc = "pacing"
    /\ packetCount = 2
    /\ readResult = "END"
    /\ delivered # <<>>

\* C23: a decode call that throws inside the consumer is absorbed there. In
\* the pacing phase the scheduler's own catch block never runs, the frame
\* callback stays registered, the chunks are handed to the consumer in cache
\* order with none skipped, whatever the decode calls did, and the promise is
\* not rejected once a chunk has been handed over.
C23_DecodeFailureAbsorbed ==
    /\ pc \in {"pacing", "returned"} => ~errorLogged
    /\ \A i \in 1..Len(delivered) : delivered[i] = i
    /\ pc = "pacing"
        => /\ rafPending /\ onFrame = "fn"
           /\ Len(delivered) + getQueueSize = Len(videoFrameCache)
    /\ delivered # <<>> => promise # "rejected" /\ error = "null"

\* C23 witness: the decode call of the first of two chunks threw, the second
\* chunk was handed over all the same, and the run returned.
C23_Witness ==
    /\ 1 \in decodeThrows
    /\ delivered = <<1, 2>>
    /\ decodedFrameCount = 1
    /\ promise = "resolved"

\* C24: with an onProgress callback, a pass of the loop calls it exactly when
\* that pass counted a video packet and the video-packet count became a multiple
\* of 100; the call carries the three counters as they then are, so the k-th
\* call carries videoPackets = 100 x k and no counter smaller than in the call
\* before; the number of calls is floor(videoPackets / 100). Without a
\* callback there is no call.
C24_ProgressEveryHundredVideoPackets ==
    [][ LET called == progressCalls' # progressCalls IN
          /\ progressCalls' \in {progressCalls, progressCalls + 1}
          /\ called <=> /\ hasOnProgress
                        /\ videoPacketCount' = videoPacketCount + 1
                        /\ videoPacketCount' % 100 = 0
          /\ called => /\ lastProgress' = <<[videoPackets |-> 100 * progressCalls',
                                              keyframes |-> keyframeCount',
                                              totalPackets |-> packetCount']>>
                       /\ lastProgress # <<>>
                           => /\ lastProgress'[1].videoPackets >= lastProgress[1].videoPackets
                              /\ lastProgress'[1].keyframes >= lastProgress[1].keyframes
                              /\ lastProgress'[1].totalPackets >= lastProgress[1].totalPackets
          /\ ~called => lastProgress' = lastProgress
          /\ progressCalls' = IF hasOnProgress THEN videoPacketCount' \div 100 ELSE 0
      ]_vars

\* C24 witness: the second call has been made, at the 200th video packet,
\* after packets of another stream and keyframes were counted.
C24_Witness ==
    /\ progressCalls = 2
    /\ lastProgress = <<[videoPackets |-> 200, keyframes |-> keyframeCount,
                         totalPackets |-> packetCount]>>
    /\ packetCount > videoPacketCount
    /\ keyframeCount > 0

\* The lowest index of a video stream in the list ss, -1 when there is none.
LowestVideoIndex(ss) ==
    LET video == {j \in 1..Len(ss) : ss[j] = "video"} IN
      IF video = {} THEN -1
      ELSE (CHOOSE j \in video : \A k \in video : j <= k) - 1

\* C28: once the streams are analysed, videoStreamIndex is the lowest index
\* of a stream of video type, and the published Stats carry that index; a
\* packet of any other stream, a later video stream included, adds to the
\* total count only; with no video stream the run fails with that error.
C28_LowestVideoStreamSelected ==
    [][ /\ pc' \in {"reading", "read", "pacing", "returned"}
            => /\ videoStreamIndex' >= 0
               /\ videoStreamIndex' = LowestVideoIndex(streams')
        /\ stats' # <<>> => stats'[1].videoStreamIndex = LowestVideoIndex(streams')
        /\ (pc' = "failed" /\ error' = "noVideo")
            => LowestVideoIndex(streams') = -1 /\ videoStreamIndex' = -1
        /\ (packetCount' = packetCount + 1
              /\ lastPkt'[1].streamIndex # LowestVideoIndex(streams))
            => UNCHANGED <<videoPacketCount, keyframeCount, videoFrameCache,
                           progressCalls, description, extractCalls>>
      ]_vars

\* C28 witness: both streams are video streams; of the two packets read one
\* came from the second stream and was counted in the total only; the Stats
\* carry index 0.
C28_Witness ==
    /\ streams = <<"video", "video">>
    /\ stats # <<>>
    /\ stats[1].videoStreamIndex = 0
    /\ stats[1].totalPackets = 2
    /\ stats[1].videoPackets = 1
    /\ Len(videoFrameCache) = 1

\* C25: when a request of the initial load threw or was answered with an
\* error status, or reading the File failed, the run has been rejected before
\* demux.open: the promise is rejected, error is set by the catch block of
\* the load and isLoading is false.
C25_LoadFaultRejectsBeforeOpen ==
    loadFault
      => /\ pc = "failed"
         /\ promise = "rejected"
         /\ error = "load"
         /\ ~isLoading

\* C26: the read callback returns the END sentinel for a read at or past the
\* end of the data and for a ranged request that threw or was answered with an
\* error status; in every other case it returns between 1 and buffer.length
\* bytes and moves the cursor by that number; when no seek intervened the
\* cursor is at most the total size.
C26_ReadReturnsEndOrBytes ==
    /\ lastFlush # <<>>
        => LET f == lastFlush[1] IN
             IF f.before >= f.size \/ f.fetch \in {"threw", "errorStatus"}
             THEN f.ret = IOErrorEND /\ f.after = f.before
             ELSE /\ f.ret \in 1..f.buffer
                  /\ f.after = f.before + f.ret
    /\ seekCalls = 0 => readPos <= fileSize

\* C27 as stated: the value first assigned to fileSize in a run is the value
\* fileSize has whenever the demultiplexer is at work, and the value every
\* onSize call returns.
C27_SizeNeverChanges ==
    sizeFirst # <<>>
      => /\ Demuxing => fileSize = sizeFirst[1]
         /\ lastSize # <<>> => lastSize[1] = sizeFirst[1]

\* C27, amended: the total size is settled when the load ends: it is the byte
\* length of the data read into memory or, for a source that is not read
\* into memory, the size of the probe. From then on no callback changes it or
\* the data, and every onSize call returns it.
C27_SizeFixedOnceLoaded ==
    [][ /\ Demuxing' => fileSize' = IF fileData' # <<>> THEN fileData'[1]
                                    ELSE sizeFirst'[1]
        /\ Demuxing => fileSize' = fileSize /\ fileData' = fileData
        /\ lastSize' # lastSize => lastSize' = <<fileSize>>
        /\ lastSize' # <<>> => lastSize'[1] = fileSize'
      ]_vars

\* C27 witness: the probe said 3 bytes, the download had 5; bytes were read;
\* onSize returned 5.
C27_Witness ==
    /\ sizeFirst = <<3>>
    /\ fileData = <<5>>
    /\ flushCalls > 0
    /\ readPos > 3
    /\ lastSize = <<5>>

\* The extensions of the ISO-BMFF row of the table, in any case.
IsIsoExt(ext) ==
    ext \in {<<".", "m", "p", "4">>, <<".", "m", "4", "v">>, <<".", "m", "o", "v">>,
             <<".", "M", "P", "4">>, <<".", "M", "o", "V">>}

\* The extension the whole name or URL string ends with.
LastExt(src) == IF src.tail = <<>> THEN src.ext ELSE src.tail.ext

\* The extension selectFormat compares: that of the pathname for a string
\* that is an absolute URL, else that of the whole string or File name.
ComparedExt(src) ==
    IF src.kind = "string" /\ src.absolute THEN src.ext ELSE LastExt(src)

\* C29 as stated: the ISO-BMFF grammar is returned exactly when the name or
\* URL, compared without regard to case, ends with .mp4, .m4v or .mov, and
\* the transport-stream grammar for every other name.
C29_IsoExactlyForSuffixOfNameOrUrl ==
    fmtResult # <<>>
      => /\ fmtResult[1] \in {"IIsobmffFormat", "IMpegtsFormat"}
         /\ fmtResult[1] = "IIsobmffFormat" <=> IsIsoExt(LastExt(fmtSource))

\* C29, amended: the ISO-BMFF grammar is returned exactly when the File name,
\* or the pathname of a string that is an absolute URL (its query and fragment
\* left out), or else the whole string, ends with .mp4, .m4v or .mov in any
\* case; the transport-stream grammar otherwise. The call writes nothing but
\* its result.
C29_IsoExactlyForSuffixOfPathname ==
    [][ fmtResult' # <<>>
          => /\ fmtResult'[1] \in {"IIsobmffFormat", "IMpegtsFormat"}
             /\ fmtResult'[1] = "IIsobmffFormat" <=> IsIsoExt(ComparedExt(fmtSource))
             /\ fmtSource' = fmtSource
             /\ UNCHANGED <<scVars, playerVars, runVars, srcVars>>
      ]_vars

\* C29 witness: the URL http://x/a.MP4?q.ts was given the ISO-BMFF grammar.
C29_Witness ==
    /\ fmtSource = [kind |-> "string", absolute |-> TRUE,
                    ext |-> <<".", "M", "P", "4">>,
                    tail |-> [sep |-> "?", ext |-> <<".", "t", "s">>]]
    /\ fmtResult = <<"IIsobmffFormat">>

\* The type byte is of a keyframe type of the family: 5, 7, 8 in the low five
\* bits for H.264; 19, 20, 32, 33, 34 in bits 1 to 6 for H.265.
IsKeyTypeByte(codec, byte) ==
    IF codec = "h264" THEN byte % 32 \in {5, 7, 8}
    ELSE (byte \div 2) % 64 \in {19, 20, 32, 33, 34}

\* C30: the scan looks at the first 100 bytes only. A unit of a keyframe type
\* whose start code and type byte lie inside that prefix (inside the payload
\* when it is shorter) is detected; a payload whose only unit of a keyframe
\* type starts beyond the prefix is reported as not a keyframe.
C30_PrefixScanDetectsUnitsInside ==
    kfResult # <<>>
      => LET in == kfInput[1]
             len == in.pad + in.sc + 1 + in.tail
             prefix == Min(len, 100)
             typeAt == in.pad + in.sc
         IN /\ (IsKeyTypeByte(in.codec, in.byte) /\ typeAt < prefix) => kfResult[1]
            /\ in.pad >= prefix => ~kfResult[1]

\* C31: the full-payload scan recognises every 3-byte and 4-byte start code
\* that is followed by at least one byte, also in the last bytes of the
\* payload, and ends each unit at the next start code or at the end of the
\* buffer: the description holds every parameter-set unit of the payload, each
\* with exactly its own bytes.
C31_EveryStartCodeRecognised ==
    exResult # <<>> =>
        LET expected == LengthPrefixed(exCodec, exUnits)
        IN exResult[1] = IF expected = <<>> THEN <<>> ELSE <<expected>>

\* The sum over the units of 2 + unit length.
RECURSIVE SumWithPrefixes(_)
SumWithPrefixes(lengths) ==
    IF lengths = <<>> THEN 0
    ELSE 2 + Head(lengths) + SumWithPrefixes(Tail(lengths))

\* C32: the two bytes written before each unit, read as a big-endian number,
\* are the byte length of that unit, whatever the length; the description is as
\* long as the sum over the units of 2 + unit length.
C32_PrefixIsUnitLength ==
    bdResult # <<>> =>
        /\ \A k \in 1..Len(bdLengths) :
              bdResult[1].prefixes[k][1] * 256 + bdResult[1].prefixes[k][2]
                = bdLengths[k]
        /\ bdResult[1].totalLength = SumWithPrefixes(bdLengths)

\* C33: detectKeyframe is true exactly when a unit found by the scan has a
\* keyframe type of the family: byte & 0x1F in {5, 7, 8} for h264,
\* (byte >> 1) & 0x3F in {19, 20, 32, 33, 34} for h265, for every value of the
\* type byte. A payload whose unit has another type, or that has no start
\* code, gives false. The result does not depend on whether the start code the
\* scan found has 3 or 4 bytes.
C33_KeyframeIffKeyTypeFound ==
    /\ kfResult # <<>>
         => LET in == kfInput[1]
                searchLength == Min(in.pad + in.sc + 1 + in.tail, 100)
                found == in.pad < searchLength - 4
            IN /\ kfResult[1] = (found /\ IsKeyTypeByte(in.codec, in.byte))
               /\ ~detectKeyframe(in.codec, Filler(in.pad + in.tail))
    /\ \A codec \in {"h264", "h265"}, b \in 0..255 :
         /\ detectKeyframe(codec, <<0, 0, 1, b, 255>>) = IsKeyTypeByte(codec, b)
         /\ detectKeyframe(codec, <<0, 0, 0, 1, b, 255>>) = IsKeyTypeByte(codec, b)

\* C33 witness: an h265 payload of an IDR unit behind a 3-byte start code was
\* reported as a keyframe.
C33_Witness ==
    /\ kfResult = <<TRUE>>
    /\ kfInput[1].codec = "h265"
    /\ kfInput[1].sc = 3
    /\ kfInput[1].byte = 38

\* The positions of the cached keyframes whose full-payload scan finds a
\* parameter-set unit.
ExtractableKeyframes ==
    {i \in 1..Len(videoFrameCache) :
       /\ videoFrameCache[i].isKeyframe
       /\ ExtractDescription(codecType, videoFrameCache[i].data) # <<>>}

\* C34: without extradata the description is, at every moment, the one
\* extracted from the first keyframe so far whose scan finds a parameter-set
\* unit; the keyframes before it were each tried once, in order, and none
\* after it; the player is built with that description as soon as there is
\* one; when no keyframe yields one the player is built without description
\* after the loop, and the run never fails for lack of a player.
C34_DescriptionFromFirstExtractableKeyframe ==
    /\ extradata = <<>> =>
         LET first == IF ExtractableKeyframes = {} THEN Len(videoFrameCache)
                      ELSE CHOOSE i \in ExtractableKeyframes :
                             \A j \in ExtractableKeyframes : i <= j
             tried == {i \in 1..first : videoFrameCache[i].isKeyframe}
         IN /\ description = IF ExtractableKeyframes = {} THEN <<>>
                             ELSE ExtractDescription(codecType,
                                                     videoFrameCache[first].data)
            /\ player # <<>> => player[1].description = description
            /\ pc \in {"reading", "read"}
                 => /\ (player # <<>>) = (description # <<>>)
                    /\ extractCalls = Cardinality(tried)
            /\ pc \in {"pacing", "returned"} => player # <<>>
    /\ error # "noPlayer"
    /\ (pc = "failed" /\ packetCount > 0) => error = "destroy"

\* C34 witness: a run without extradata in which the first keyframe held no
\* parameter set and the second did, so that the description came from the
\* second; the run reached the pacing phase.
C34_Witness ==
    /\ extradata = <<>>
    /\ pc = "pacing"
    /\ Len(videoFrameCache) = 2
    /\ videoFrameCache[1].isKeyframe
    /\ ExtractDescription(codecType, videoFrameCache[1].data) = <<>>
    /\ videoFrameCache[2].isKeyframe
    /\ description = ExtractDescription(codecType, videoFrameCache[2].data)
    /\ description # <<>>
    /\ player[1].description = description

\* The chunks handed to the consumer so far, followed by those still queued.
emittedThenQueued == delivered \o encodeVideoChunkQueue

\* C35: whatever the order of addEncodeVideoChunk, ticks, setPausedState and
\* destroy, the chunks reach the consumer in the order they were enqueued and
\* each at most once (chunks are numbered in enqueue order, so the emitted
\* chunks followed by the queued ones are strictly increasing), and every step
\* keeps emitted + queued + discarded by destroy = enqueued: a step that calls
\* destroy() emits nothing and discards exactly the queue, any other step only
\* moves chunks from the head of the queue to the consumer and appends the
\* chunk it enqueues.
C35_FifoAndConservation ==
    /\ [](/\ \A i \in 1..Len(emittedThenQueued) :
               emittedThenQueued[i] \in 1..enqueued
          /\ \A i, j \in 1..Len(emittedThenQueued) :
               i < j => emittedThenQueued[i] < emittedThenQueued[j])
    /\ [][LET destroys == \/ lastOp' = "destroy"
                          \/ lastOp' = "playerDestroy" /\ speedControl # "null"
               discarded == IF destroys THEN Len(encodeVideoChunkQueue) ELSE 0
               added == IF enqueued' > enqueued THEN <<enqueued'>> ELSE <<>>
           IN /\ Len(delivered') + Len(encodeVideoChunkQueue') + discarded
                   = Len(delivered) + Len(encodeVideoChunkQueue) + Len(added)
              /\ IF destroys
                 THEN delivered' = delivered /\ encodeVideoChunkQueue' = <<>>
                 ELSE emittedThenQueued' = emittedThenQueued \o added
              /\ Len(delivered') >= Len(delivered)
              /\ SubSeq(delivered', 1, Len(delivered)) = delivered]_vars

\* C35 witness: three chunks were enqueued; one was emitted, one was discarded
\* by destroy() and one, enqueued after destroy(), is queued.
C35_Witness ==
    /\ enqueued = 3
    /\ Len(delivered) = 1
    /\ Len(encodeVideoChunkQueue) = 1
    /\ destroyCalls >= 1

\* The scheduler is running, unpaused and not destroyed, k chunks have been
\* enqueued so far, and the clock of the model leaves room for the ticks that
\* empty the queue (one interval a chunk, and one more interval and one tick).
Draining(k) ==
    /\ rafPending
    /\ onFrame # "null"
    /\ ~paused
    /\ enqueued = k
    /\ encodeVideoChunkQueue # <<>>
    /\ now + frameInterval * (Len(encodeVideoChunkQueue) + 1) + 17 <= MaxTime

\* C36: while the scheduler is running, unpaused and not destroyed and nothing
\* more is enqueued, ticks go on and every queued chunk is eventually handed
\* to the consumer: from such a state the queue becomes empty (unless the
\* scheduler is paused or destroyed, or a chunk is enqueued, before that);
\* and an empty queue stays empty in every step that enqueues nothing.
C36_QueueDrains ==
    /\ \A k \in 1..MaxChunks :
         Draining(k) ~> (\/ encodeVideoChunkQueue = <<>> /\ Len(delivered) = k
                         \/ paused
                         \/ onFrame = "null"
                         \/ enqueued > k)
    /\ [][(encodeVideoChunkQueue = <<>> /\ enqueued' = enqueued)
            => encodeVideoChunkQueue' = <<>>]_vars

\* C36 witness: two chunks were queued on a running, unpaused scheduler, and
\* ticks alone emptied the queue.
C36_Witness ==
    /\ enqueued = 2
    /\ delivered = <<1, 2>>
    /\ encodeVideoChunkQueue = <<>>
    /\ destroyCalls = 0
    /\ ~paused
    /\ lastOp = "tick"

\* C37: the wait of the pacing phase ends before the timeout is due only when
\* the queue is empty and the decode call of every cached frame has returned
\* without throwing; when the decode call of a frame throws, the wait ends
\* only when the timeout is due.
C37_EarlyEndOnlyWhenAllDecoded ==
    [][(pc = "pacing" /\ pc' # "pacing")
         => /\ now' <= watchdogAt
            /\ now' < watchdogAt
                 => /\ encodeVideoChunkQueue = <<>>
                    /\ decodeThrows = {}
                    /\ \A i \in 1..Len(videoFrameCache) :
                         \E j \in 1..Len(delivered) : delivered[j] = i
            /\ decodeThrows # {} => now' = watchdogAt]_vars

\* C37 witness: both cached frames were handed to the consumer, the decode call
\* of one of them threw, and the run returned when the timeout was due.
C37_Witness ==
    /\ pc = "returned"
    /\ Len(videoFrameCache) = 2
    /\ Len(delivered) = 2
    /\ decodeThrows # {}
    /\ now = watchdogAt

\* C38: once WebcodecPlayer.destroy() has returned the player holds no
\* decoder any more (decoder is and stays null), also when destroy() is called
\* while createDecoder() still waits for the support check.
C38_NoDecoderAfterDestroy ==
    playerDestroyCalls >= 1 => decoder = "null"

\* C39: with two invocations of processVideoFile on one instance, a step of
\* one invocation taken while the other is loading its source or ingesting
\* leaves isLoading true, and when that step is the failure or the completion
\* of the invocation it changes neither isLoading nor error.
C39_RunsDoNotDisturbEachOther ==
    [][\A r \in 1..2 :
         (runPhase'[r] # runPhase[r] /\ runPhase[3 - r] \in {"loading", "ingesting"})
           => /\ isLoading'
              /\ runPhase'[r] \in {"pacing", "returned", "failed"}
                   => (isLoading' = isLoading /\ error' = error)]_vars

\* C40: a run never constructs more than one player, and when the packet loop
\* has ended without an exception the lines after it always lead to the
\* pacing phase with exactly one player constructed, with or without
\* extradata and whether or not a keyframe yielded a description; the run
\* never fails with the "player not created" error.
C40_OnePlayerBeforePacing ==
    /\ [](/\ playersConstructed <= 1
          /\ pc \in {"pacing", "returned"}
               => (playersConstructed = 1 /\ player # <<>>)
          /\ error # "noPlayer")
    /\ [][pc = "read" => pc' \in {"read", "pacing"}]_vars

\* C40 witness: a run without extradata whose only keyframe held no parameter
\* set reached the pacing phase with the one player built after the loop.
C40_Witness ==
    /\ pc = "pacing"
    /\ extradata = <<>>
    /\ description = <<>>
    /\ \E i \in 1..Len(videoFrameCache) : videoFrameCache[i].isKeyframe
    /\ playersConstructed = 1
    /\ player # <<>>
    /\ player[1].description = <<>>

====
